---- MODULE Spec2Model ----
(***************************************************************************)
(* Model of the cooklang recipe pipeline of cooklang-chef:                 *)
(*   text -> parser -> analysis -> Recipe -> scale / convert / group       *)
(* and of its two consumers, the web handler `recipe` and the Markdown     *)
(* writer.                                                                 *)
(*                                                                         *)
(* The recipe text is modelled after lexing: a sequence of constructs, one *)
(* record per marker, line or text run; the span of a construct is its     *)
(* position in that sequence.  Numbers are exact rationals <<n, d>>.       *)
(* Indices into the recipe lists are 0-based as in the source, so          *)
(* list[index] of the source is list[index + 1] here.                      *)
(***************************************************************************)
EXTENDS Integers, Sequences, FiniteSets, TLC

VARIABLES
    input,      \* the recipe text, as a sequence of constructs
    parser,     \* CooklangParser { extensions, warnings_as_errors, converter }
    config,     \* the server's Config { recipe_ref_check, ui }
    query,      \* RecipeQuery { scale, units } of the requests
    busy,       \* whether anything else goes on while the request is served
    req_path,     \* the path of the request that is followed
    options,    \* the Options of the Markdown writer
    file,       \* the text of cake.cook on disk, None once it is removed
    me,         \* the caller that is followed: the library's, or a request of
                \* the server, [pc, content, res, resp, calls, self]; pc is also
                \* "built", "parsed" and "printed" (library), and self is the parser
                \* as it was when the library's caller parsed
    other,      \* a second request for cake.cook running at the same time
    markdown,   \* what print_md_with_options wrote
    stepped     \* the items and the list step_ingredients was called with, and
                \* what it returned

vars == <<input, parser, config, query, busy, req_path, options, file, me, other, markdown, stepped>>

(***************************************************************************)
(* Bounds of the model.                                                    *)
(***************************************************************************)
MaxLen == 3         \* constructs in one recipe text
MaxExtLen == 2      \* constructs in one text of extension syntax
MaxScale == 8       \* largest ?scale= of a request
MaxRaceLen == 1     \* a second request and changes of the file are followed for texts up to this length
MaxSetLen == 1      \* the setters of the parser are followed for texts up to this length

\* Rust's Option: None is the empty sequence, Some(x) the sequence of x alone
None == <<>>
Some(x) == <<x>>
IsSome(o) == o # <<>>
Unwrap(o) == o[1]

(***************************************************************************)
(* Extensions: the bitflags of cooklang/src/lib.rs.                        *)
(***************************************************************************)
MULTINE_STEPS == 1
INGREDIENT_MODIFIERS == 2
INGREDIENT_NOTE == 4
INGREDIENT_ALIAS == 8
SECTIONS == 16
ADVANCED_UNITS == 32
MODES == 64
TEMPERATURE == 128

RECURSIVE BitAnd(_, _)
BitAnd(a, b) ==
    IF a = 0 \/ b = 0 THEN 0
    ELSE 2 * BitAnd(a \div 2, b \div 2) + (IF a % 2 = 1 /\ b % 2 = 1 THEN 1 ELSE 0)

BitOr(a, b) == a + b - BitAnd(a, b)

Flags ==
    {MULTINE_STEPS, INGREDIENT_MODIFIERS, INGREDIENT_NOTE, INGREDIENT_ALIAS,
     SECTIONS, ADVANCED_UNITS, MODES, TEMPERATURE}

INGREDIENT_ALL == BitOr(BitOr(INGREDIENT_MODIFIERS, INGREDIENT_ALIAS), INGREDIENT_NOTE)

\* Extensions::all(), the Default: the union of every declared flag
RECURSIVE UnionOf(_)
UnionOf(fs) ==
    IF fs = {} THEN 0
    ELSE LET f == CHOOSE x \in fs : TRUE IN BitOr(f, UnionOf(fs \ {f}))

ExtAll == UnionOf(Flags \cup {INGREDIENT_ALL})

\* Extensions::intersects in the place of contains
Contains_Intersects(ext, flag) == BitAnd(ext, flag) # 0

\* Extensions::contains
Contains(ext, flag) == BitAnd(ext, flag) = flag

\* Extensions::remove / difference
Remove(ext, flag) == ext - BitAnd(ext, flag)

(***************************************************************************)
(* Rationals.                                                              *)
(***************************************************************************)
RECURSIVE Gcd(_, _)
Gcd(a, b) == IF b = 0 THEN a ELSE Gcd(b, a % b)

Rat(n, d) == LET g == Gcd(n, d) IN IF g = 0 THEN <<0, 1>> ELSE <<n \div g, d \div g>>
RMul(a, b) == Rat(a[1] * b[1], a[2] * b[2])
RDiv(a, b) == Rat(a[1] * b[2], a[2] * b[1])
RAdd(a, b) == Rat(a[1] * b[2] + b[1] * a[2], a[2] * b[2])
RGe(a, b) == a[1] * b[2] >= b[1] * a[2]
RInt(n) == <<n, 1>>

(***************************************************************************)
(* Quantity { value: Value, unit: Option<unit text> }.                     *)
(* Value is Number(n), Range { start, end } or Text(s).                    *)
(***************************************************************************)
Number(r) == [type |-> "Number", start |-> r, end |-> r, text |-> ""]
Range(a, b) == [type |-> "Range", start |-> a, end |-> b, text |-> ""]
Text(s) == [type |-> "Text", start |-> <<0, 1>>, end |-> <<0, 1>>, text |-> s]
Quantity(v, u) == [value |-> v, unit |-> u]

(***************************************************************************)
(* Constructs of the recipe text (the lexer's view of the markup).         *)
(*   kind   "text", "ingredient", "cookware", "timer", "inline",           *)
(*          "section", "blank", "terminator", "mode", "temperature",       *)
(*          "metadata", "paragraph" (a block of text that is no step) or   *)
(*          "broken" (a malformed marker)                                  *)
(*   name   the name of the entity, the section or the metadata key        *)
(*   mods   modifier prefixes: "opt", "hidden", "new", "ref", "recipe"     *)
(*   qty    the braced quantity, or None                                   *)
(*   val    the raw value of a metadata line                               *)
(*   gate   the extension flag the syntax needs, 0 when it needs none      *)
(***************************************************************************)
Tok(kind, name, mods, alias, note, qty, val, gate) ==
    [kind |-> kind, name |-> name, mods |-> mods, alias |-> alias, note |-> note,
     qty |-> qty, val |-> val, gate |-> gate]

Plain(kind, name, qty) == Tok(kind, name, {}, None, None, qty, "", 0)
WithMods(kind, name, mods, qty) ==
    Tok(kind, name, mods, None, None, qty, "", INGREDIENT_MODIFIERS)
Meta(key, val) == Tok("metadata", key, {}, None, None, None, val, 0)

(***************************************************************************)
(* Diagnostic { severity, message, span, hints }.                          *)
(***************************************************************************)
Diagnostic(sev, msg, span, hints) ==
    [severity |-> sev, message |-> msg, span |-> span, hints |-> hints]

\* a Warning, promoted to Error in "warnings as errors" mode
Warning(wae) == IF wae THEN "Error" ELSE "Warning"

HasError(diags) == \E i \in 1..Len(diags) : diags[i].severity = "Error"

\* the judgement of a phase: it fails on an Error, or on anything when promoted
Failed(diags, wae) == HasError(diags) \/ (wae /\ Len(diags) > 0)

(***************************************************************************)
(* Parser: constructs -> AST + diagnostics.                                *)
(* AST: meta (the metadata lines in order) and sections, each               *)
(* [name, steps], a step being a sequence of nodes [kind, tok, span].      *)
(* A node of kind "text" is literal text; a block of text is a step of one *)
(* node of kind "paragraph".                                               *)
(***************************************************************************)
Node(kind, tok, span) == [kind |-> kind, tok |-> tok, span |-> span]

ImplicitSection == [name |-> None, steps |-> <<>>]

\* append a node to the open step of the last section, opening one if needed
AddNode(st, node) ==
    LET n == Len(st.secs)
        sec == st.secs[n]
        k == Len(sec.steps)
        steps == IF st.open /\ k > 0
                 THEN [sec.steps EXCEPT ![k] = Append(@, node)]
                 ELSE Append(sec.steps, <<node>>)
    IN [st EXCEPT !.secs[n].steps = steps, !.open = TRUE]

\* a block of text stands alone: it closes the open step and opens none
AddBlock(st, node) ==
    LET n == Len(st.secs)
    IN [st EXCEPT !.secs[n].steps = Append(@, <<node>>), !.open = FALSE]

\* a section marker: the implicit section is replaced while it is still empty
AddSection(st, name) ==
    LET new == [name |-> Some(name), steps |-> <<>>]
        secs == IF Len(st.secs) = 1 /\ st.secs[1] = ImplicitSection
                THEN <<new>> ELSE Append(st.secs, new)
    IN [st EXCEPT !.secs = secs, !.open = FALSE]

AddDiag(st, d) == [st EXCEPT !.diags = Append(@, d)]

\* the structured node kind of an accepted construct
NodeKind(tok) == IF tok.kind = "temperature" THEN "inline" ELSE tok.kind

ParseOne(st, tok, i, ext, wae) ==
    IF tok.gate # 0 /\ ~Contains(ext, tok.gate)
    THEN \* syntax of a disabled extension: literal text and one diagnostic
         AddNode(AddDiag(st, Diagnostic(Warning(wae), "extension disabled", i, <<>>)),
                 Node("text", tok, i))
    ELSE CASE tok.kind = "broken" ->
                AddNode(AddDiag(st, Diagnostic("Error", "malformed marker", i, <<>>)),
                        Node("text", tok, i))
           [] tok.kind = "section" -> AddSection(st, tok.name)
           [] tok.kind \in {"blank", "terminator"} -> [st EXCEPT !.open = FALSE]
           [] tok.kind = "mode" -> st
           [] tok.kind = "paragraph" -> AddBlock(st, Node("paragraph", tok, i))
           [] tok.kind = "metadata" ->
                [st EXCEPT !.meta = Append(@, [key |-> tok.name, val |-> tok.val, span |-> i])]
           [] OTHER -> AddNode(st, Node(NodeKind(tok), tok, i))

RECURSIVE ParseFrom(_, _, _, _, _)
ParseFrom(st, text, i, ext, wae) ==
    IF i > Len(text) THEN st
    ELSE ParseFrom(ParseOne(st, text[i], i, ext, wae), text, i + 1, ext, wae)

\* parser::parse(input, extensions, warnings_as_errors)
parser_parse(text, ext, wae) ==
    LET st == ParseFrom([meta |-> <<>>, secs |-> <<ImplicitSection>>, diags |-> <<>>,
                         open |-> FALSE], text, 1, ext, wae)
    IN [ok |-> ~Failed(st.diags, wae),
        ast |-> [meta |-> st.meta, sections |-> st.secs],
        w |-> st.diags]

(***************************************************************************)
(* Recipe reference checker of the web server.                              *)
(* Paths are sequences of components below the root; a referenced name is   *)
(* looked up as a path first and in the recipe index second.                *)
(***************************************************************************)
RECIPE_REF_ERROR == "recipe reference not found"

\* the names a recipe text can reference, and the server's surroundings
RefNames == {"bread", "secret", "dough", "link", "pie", "notes", "raw", "lost"}
\* the recipes state.recipe_index knows by name
RecipeIndex == {"bread", "pie", "cake", "ghost"}
BasePath == <<"srv">>                    \* state.base_path
EntryPath == <<"srv", "cake.cook">>      \* entry.path() of the served recipe
\* what Utf8PathBuf::from(name) followed by canonicalize() gives: None when the
\* path does not exist, else the absolute, symlink-free path
\* (link.cook is a symlink below the base path to a file outside of it, raw.cook
\* one to a file whose name is not UTF-8)
NotUtf8 == "<not UTF-8>"
Canonical(path) ==
    CASE path = <<"srv", "bread.cook">> -> Some(<<"srv", "bread.cook">>)
      [] path = <<"srv", "dough.cook">> -> Some(<<"srv", "dough.cook">>)
      [] path = <<"srv", "notes.txt">> -> Some(<<"srv", "notes.txt">>)
      [] path = <<"srv", "raw.cook">> -> Some(<<"srv", NotUtf8>>)
      [] path = <<"srv", "sub", "lost.cook">> -> Some(<<"srv", "sub", "lost.cook">>)
      [] path = <<"srv", "link.cook">> -> Some(<<"etc", "secret.cook">>)
      [] path = <<"etc", "secret.cook">> -> Some(<<"etc", "secret.cook">>)
      [] path = <<"etc", "pie.cook">> -> Some(<<"etc", "pie.cook">>)
      [] OTHER -> None
\* the path a referenced name stands for: "bread" is relative, the others absolute
PathOf(name) ==
    CASE name = "secret" -> [relative |-> FALSE, parts |-> <<"etc", "secret.cook">>]
      [] name = "dough" -> [relative |-> FALSE, parts |-> <<"srv", "dough.cook">>]
      [] name = "link" -> [relative |-> FALSE, parts |-> <<"srv", "link.cook">>]
      [] name = "pie" -> [relative |-> FALSE, parts |-> <<"etc", "pie.cook">>]
      [] name = "notes" -> [relative |-> FALSE, parts |-> <<"srv", "notes.txt">>]
      [] name = "raw" -> [relative |-> FALSE, parts |-> <<"srv", "raw.cook">>]
      [] name = "lost" -> [relative |-> FALSE, parts |-> <<"srv", "sub", "lost.cook">>]
      [] OTHER -> [relative |-> TRUE, parts |-> <<name>>]

IsPrefix(p, q) == Len(p) <= Len(q) /\ SubSeq(q, 1, Len(p)) = p

\* Utf8Path::from_path: None for a path that is not UTF-8
from_path(path) ==
    IF \E k \in 1..Len(path) : path[k] = NotUtf8 THEN None ELSE Some(path)

\* DirEntry::new(path).ok(), for the path relative to the base path: the server
\* does not run in sub/, where the relative path of lost.cook leads nowhere
DirEntryNew(path) == IF path = <<"sub", "lost.cook">> THEN None ELSE Some(path)

\* RecipeEntry::try_from(entry).ok(): only a .cook file is a recipe
RecipeEntryFrom(entry) == IF entry = <<"notes.txt">> THEN None ELSE Some(entry)

\* lines 332-335, on the path with the base path stripped
SafeEntry(safe_path) ==
    IF ~IsSome(from_path(safe_path)) THEN None
    ELSE IF ~IsSome(DirEntryNew(Unwrap(from_path(safe_path)))) THEN None
    ELSE RecipeEntryFrom(Unwrap(DirEntryNew(Unwrap(from_path(safe_path)))))

\* as_path without strip_prefix: any existing path gives an entry
as_path_AnyPath(recipe_path, relative_to, base_path) ==
    LET p0 == PathOf(recipe_path)
        path == IF IsSome(relative_to) /\ p0.relative
                THEN Unwrap(relative_to) \o p0.parts ELSE p0.parts
        canon == Canonical(path)
    IN IF ~IsSome(canon) THEN None
       ELSE SafeEntry(Unwrap(canon))

\* as_path: Some(entry) only for a recipe at an existing path inside base_path
as_path(recipe_path, relative_to, base_path) ==
    LET p0 == PathOf(recipe_path)
        path == IF IsSome(relative_to) /\ p0.relative
                THEN Unwrap(relative_to) \o p0.parts ELSE p0.parts
        canon == Canonical(path)
    IN IF ~IsSome(canon) THEN None
       ELSE IF ~IsPrefix(base_path, Unwrap(canon)) THEN None
       ELSE SafeEntry(SubSeq(Unwrap(canon), Len(base_path) + 1, Len(Unwrap(canon))))

Found == [found |-> TRUE, hints |-> <<>>]
NotFound(hints) == [found |-> FALSE, hints |-> hints]

\* the checker answering NotFound without its hint
checker_NoHints(cfg, relative_to) ==
    IF cfg.recipe_ref_check
    THEN Some([name \in RefNames |->
                IF IsSome(as_path(name, relative_to, BasePath)) \/ name \in RecipeIndex
                THEN Found ELSE NotFound(<<>>)])
    ELSE None

\* AppState::checker: the closure, as the function it computes, or None
checker(cfg, relative_to) ==
    IF cfg.recipe_ref_check
    THEN Some([name \in RefNames |->
                IF IsSome(as_path(name, relative_to, BasePath)) \/ name \in RecipeIndex
                THEN Found ELSE NotFound(<<RECIPE_REF_ERROR>>)])
    ELSE None

(***************************************************************************)
(* Semantic analysis: AST -> recipe content + diagnostics.                 *)
(***************************************************************************)
\* an entry of recipe.ingredients / recipe.cookware / recipe.timers
Entry(tok, relation) ==
    [name |-> tok.name, alias |-> tok.alias, note |-> tok.note, mods |-> tok.mods,
     quantity |-> tok.qty, relation |-> relation]

Item(type, index, value) == [type |-> type, index |-> index, value |-> value]

Max(S) == CHOOSE x \in S : \A y \in S : y <= x

\* 0-based indices of the earlier entries of that name / of its definitions
SameName(list, name) == {j \in 1..Len(list) : list[j].name = name}
Definitions(list, name) == {j \in SameName(list, name) : list[j].relation = None}

\* resolution of one ingredient or cookware mention against the earlier entries
Resolve(list, tok, span) ==
    IF "ref" \in tok.mods
    THEN IF SameName(list, tok.name) # {}
         THEN [relation |-> Some(Max(SameName(list, tok.name)) - 1), diags |-> <<>>]
         ELSE [relation |-> None,
               diags |-> <<Diagnostic("Error", "reference not found", span, <<>>)>>]
    ELSE IF "new" \in tok.mods \/ Definitions(list, tok.name) = {}
    THEN [relation |-> None, diags |-> <<>>]
    ELSE [relation |-> Some(Max(Definitions(list, tok.name)) - 1), diags |-> <<>>]

\* validation of a reference to another recipe: one call per distinct name
CheckRef(acc, tok, span, wae, chk) ==
    IF "recipe" \notin tok.mods \/ ~IsSome(chk) \/ tok.name \in acc.checked
    THEN acc
    ELSE LET r == Unwrap(chk)[tok.name]
         IN [acc EXCEPT !.calls = Append(@, tok.name),
                        !.checked = @ \cup {tok.name},
                        !.diags = IF r.found THEN @
                                  ELSE Append(@, Diagnostic(Warning(wae), "recipe not found",
                                                            span, r.hints))]

AnalyzeNode(acc, node, wae, chk) ==
    CASE node.kind = "ingredient" ->
            LET r == Resolve(acc.ingredients, node.tok, node.span)
                a == CheckRef([acc EXCEPT !.diags = @ \o r.diags], node.tok, node.span, wae, chk)
            IN [a EXCEPT !.ingredients = Append(@, Entry(node.tok, r.relation)),
                         !.items = Append(@, Item("ingredient", Len(acc.ingredients), ""))]
      [] node.kind = "cookware" ->
            LET r == Resolve(acc.cookware, node.tok, node.span)
            IN [acc EXCEPT !.diags = @ \o r.diags,
                           !.cookware = Append(@, Entry(node.tok, r.relation)),
                           !.items = Append(@, Item("cookware", Len(acc.cookware), ""))]
      [] node.kind = "timer" ->
            [acc EXCEPT !.timers = Append(@, Entry(node.tok, None)),
                        !.items = Append(@, Item("timer", Len(acc.timers), ""))]
      [] node.kind = "inline" ->
            [acc EXCEPT !.inline_quantities = Append(@, Unwrap(node.tok.qty)),
                        !.items = Append(@, Item("inline_quantity", Len(acc.inline_quantities), ""))]
      [] OTHER -> [acc EXCEPT !.items = Append(@, Item("text", 0, node.tok.name))]

RECURSIVE AnalyzeStep(_, _, _, _, _)
AnalyzeStep(acc, step, k, wae, chk) ==
    IF k > Len(step) THEN acc
    ELSE AnalyzeStep(AnalyzeNode(acc, step[k], wae, chk), step, k + 1, wae, chk)

\* Content: Step { number, items } or Text(value)
Step(number, items) == [type |-> "step", number |-> number, items |-> items]
TextBlock(value) == [type |-> "text", value |-> value]

\* steps are numbered from 1 in every section; a block of text has no number
StepNumber(content) ==
    Cardinality({k \in 1..Len(content) : content[k].type = "step"}) + 1

RECURSIVE AnalyzeSteps(_, _, _, _, _)
AnalyzeSteps(acc, steps, t, wae, chk) ==
    IF t > Len(steps) THEN acc
    ELSE IF steps[t][1].kind = "paragraph"
    THEN AnalyzeSteps([acc EXCEPT !.steps = Append(@, TextBlock(steps[t][1].tok.name))],
                      steps, t + 1, wae, chk)
    ELSE LET a == AnalyzeStep([acc EXCEPT !.items = <<>>], steps[t], 1, wae, chk)
         IN AnalyzeSteps([a EXCEPT !.steps = Append(@, Step(StepNumber(acc.steps), a.items))],
                         steps, t + 1, wae, chk)

RECURSIVE AnalyzeSections(_, _, _, _, _)
AnalyzeSections(acc, secs, s, wae, chk) ==
    IF s > Len(secs) THEN acc
    ELSE LET a == AnalyzeSteps([acc EXCEPT !.steps = <<>>], secs[s].steps, 1, wae, chk)
         IN AnalyzeSections(
                [a EXCEPT !.sections = Append(@, [name |-> secs[s].name, content |-> a.steps])],
                secs, s + 1, wae, chk)

(***************************************************************************)
(* Metadata: the raw map in insertion order plus the typed special fields. *)
(***************************************************************************)
\* the number a raw value reads as, if it is one
NumOf(val) ==
    CASE val = "1" -> Some(1) [] val = "2" -> Some(2) [] val = "3" -> Some(3)
      [] val = "4" -> Some(4) [] OTHER -> None

\* IndexMap::insert: a known key keeps its position and takes the new value
RECURSIVE MapInsert(_, _, _)
MapInsert(map, key, val) ==
    IF map = <<>> THEN <<[key |-> key, val |-> val]>>
    ELSE IF map[1].key = key THEN <<[key |-> key, val |-> val]>> \o Tail(map)
    ELSE <<map[1]>> \o MapInsert(Tail(map), key, val)

MapHas(map, key) == \E i \in 1..Len(map) : map[i].key = key
MapGet(map, key) == map[CHOOSE i \in 1..Len(map) : map[i].key = key].val

EmptyMetadata ==
    [map |-> <<>>, author |-> None, source |-> None, time |-> None,
     servings |-> None, tags |-> <<>>, description |-> None, emoji |-> None]

\* one metadata line: always kept raw; typed when the value has the expected shape,
\* else a diagnostic notes the fallback
AnalyzeMeta(acc, m, wae) ==
    LET md == [acc.metadata EXCEPT !.map = MapInsert(@, m.key, m.val)]
        bad == AddDiag(acc, Diagnostic(Warning(wae), "bad metadata value", m.span, <<>>))
    IN CASE m.key = "servings" ->
              IF IsSome(NumOf(m.val))
              THEN [acc EXCEPT !.metadata = [md EXCEPT !.servings = NumOf(m.val)]]
              ELSE [bad EXCEPT !.metadata = md]
         [] m.key = "time" ->
              IF IsSome(NumOf(m.val))
              THEN [acc EXCEPT !.metadata = [md EXCEPT !.time = NumOf(m.val)]]
              ELSE [bad EXCEPT !.metadata = md]
         [] m.key = "author" -> [acc EXCEPT !.metadata = [md EXCEPT !.author = Some(m.val)]]
         [] m.key = "source" -> [acc EXCEPT !.metadata = [md EXCEPT !.source = Some(m.val)]]
         [] m.key = "tags" -> [acc EXCEPT !.metadata = [md EXCEPT !.tags = <<m.val>>]]
         [] m.key = "description" ->
              [acc EXCEPT !.metadata = [md EXCEPT !.description = Some(m.val)]]
         [] m.key = "emoji" -> [acc EXCEPT !.metadata = [md EXCEPT !.emoji = Some(m.val)]]
         [] OTHER -> [acc EXCEPT !.metadata = md]

RECURSIVE AnalyzeMetas(_, _, _, _)
AnalyzeMetas(acc, meta, i, wae) ==
    IF i > Len(meta) THEN acc
    ELSE AnalyzeMetas(AnalyzeMeta(acc, meta[i], wae), meta, i + 1, wae)

\* analysis::analyze_ast(input, ast, extensions, converter, warnings_as_errors),
\* with the recipe reference checker of parse_with_recipe_ref_checker
EmptyAcc ==
    [metadata |-> EmptyMetadata, sections |-> <<>>, steps |-> <<>>,
     items |-> <<>>, ingredients |-> <<>>, cookware |-> <<>>,
     timers |-> <<>>, inline_quantities |-> <<>>, diags |-> <<>>,
     calls |-> <<>>, checked |-> {}]

\* the result of the analysis, from what the walk has collected
AnalysisResult(acc, wae) ==
    [ok |-> ~Failed(acc.diags, wae),
     content |-> [metadata |-> acc.metadata, sections |-> acc.sections,
                  ingredients |-> acc.ingredients, cookware |-> acc.cookware,
                  timers |-> acc.timers, inline_quantities |-> acc.inline_quantities],
     w |-> acc.diags,
     calls |-> acc.calls]

analyze_ast(ast, wae, chk) ==
    AnalysisResult(AnalyzeSections(AnalyzeMetas(EmptyAcc, ast.meta, 1, wae),
                                   ast.sections, 1, wae, chk), wae)

(***************************************************************************)
(* CooklangParser::parse.                                                  *)
(***************************************************************************)
\* the Recipe literal of parse: the name and five fields of the content
Recipe(recipe_name, content) ==
    [name |-> recipe_name,
     metadata |-> content.metadata,
     sections |-> content.sections,
     ingredients |-> content.ingredients,
     cookware |-> content.cookware,
     timers |-> content.timers]

NoRecipe == Recipe("", [metadata |-> EmptyMetadata, sections |-> <<>>, ingredients |-> <<>>,
                        cookware |-> <<>>, timers |-> <<>>])

\* CookResult: Ok((recipe, warnings)) or Err(report)
Ok(r, warn) == [ok |-> TRUE, recipe |-> r, warnings |-> warn, report |-> <<>>]
Err(report) == [ok |-> FALSE, recipe |-> NoRecipe, warnings |-> <<>>, report |-> report]

\* parse without the `?` after analyze_ast: a failed analysis goes unnoticed
parse_IgnoringAnalysis(self, text, recipe_name) ==
    LET p == parser_parse(text, self.extensions, self.warnings_as_errors)
    IN IF ~p.ok THEN Err(p.w)
       ELSE LET a == analyze_ast(p.ast, self.warnings_as_errors, None)
            IN Ok(Recipe(recipe_name, a.content), p.w \o a.w)

\* lines 74-93: the `?` after analyze_ast returns the report of the analysis alone;
\* otherwise `warn` holds the warnings of the two phases in order
AfterAnalysis(p, a, recipe_name) ==
    IF ~a.ok THEN Err(a.w)
    ELSE Ok(Recipe(recipe_name, a.content), p.w \o a.w)

\* lines 72-73: the `?` after parser::parse returns the report of the parser;
\* analyze_ast is called without a recipe reference checker
AfterParser(p, self, recipe_name) ==
    IF ~p.ok THEN Err(p.w)
    ELSE AfterAnalysis(p, analyze_ast(p.ast, self.warnings_as_errors, None), recipe_name)

parse(self, text, recipe_name) ==
    AfterParser(parser_parse(text, self.extensions, self.warnings_as_errors),
                self, recipe_name)

(***************************************************************************)
(* CooklangParser::parse_with_recipe_ref_checker(input, checker) and       *)
(* into_result() of the core the server and the Markdown writer are built  *)
(* on.  Its recipe has no name and owns the list of inline quantities.     *)
(***************************************************************************)
ScalableRecipe(content) ==
    [metadata |-> content.metadata,
     sections |-> content.sections,
     ingredients |-> content.ingredients,
     cookware |-> content.cookware,
     timers |-> content.timers,
     inline_quantities |-> content.inline_quantities]

NoScalable == ScalableRecipe([metadata |-> EmptyMetadata, sections |-> <<>>,
                              ingredients |-> <<>>, cookware |-> <<>>, timers |-> <<>>,
                              inline_quantities |-> <<>>])

\* the outcome of a pass; `calls` logs the names the checker was asked about
Valid(r, warn, log) ==
    [ok |-> TRUE, recipe |-> r, warnings |-> warn, report |-> <<>>, calls |-> log]
Invalid(report, log) ==
    [ok |-> FALSE, recipe |-> NoScalable, warnings |-> <<>>, report |-> report, calls |-> log]

\* into_result: the report of everything recorded when the pass failed, else the
\* recipe with everything recorded as warnings
into_result(p, a) ==
    IF ~a.ok THEN Invalid(p.w \o a.w, a.calls)
    ELSE Valid(ScalableRecipe(a.content), p.w \o a.w, a.calls)

PassAfterParser(p, self, chk) ==
    IF ~p.ok THEN Invalid(p.w, <<>>)
    ELSE into_result(p, analyze_ast(p.ast, self.warnings_as_errors, chk))

parse_with_recipe_ref_checker(self, text, chk) ==
    PassAfterParser(parser_parse(text, self.extensions, self.warnings_as_errors), self, chk)

(***************************************************************************)
(* Converter: the unit table, in declaration order.  `factor` is the size  *)
(* of the unit in the base unit of its kind (g, ml, s).                    *)
(***************************************************************************)
Unit(name, kind, system, factor) ==
    [name |-> name, kind |-> kind, system |-> system, factor |-> factor]

Units ==
    <<Unit("g", "mass", "metric", 1),
      Unit("kg", "mass", "metric", 1000),
      Unit("oz", "mass", "imperial", 28),
      Unit("lb", "mass", "imperial", 448),
      Unit("ml", "volume", "metric", 1),
      Unit("cc", "volume", "metric", 1),
      Unit("l", "volume", "metric", 1000),
      Unit("cup", "volume", "imperial", 240),
      Unit("s", "time", "none", 1),
      Unit("min", "time", "none", 60)>>

Systems == {"metric", "imperial"}

Min(S) == CHOOSE x \in S : \A y \in S : x <= y

Known(unit) == \E i \in 1..Len(Units) : Units[i].name = unit
\* lookup by exact unit text: the first declaration of that name
Lookup(unit) == Units[Min({i \in 1..Len(Units) : Units[i].name = unit})]

\* the units of a system and kind, as positions in the table
Candidates(system, kind) ==
    {i \in 1..Len(Units) : Units[i].system = system /\ Units[i].kind = kind}

\* magnitude (in base units) expressed in the unit at position i is at least 1
AtLeastOne(base, i) == RGe(base, RInt(Units[i].factor))

\* "nicest unit": the largest candidate that keeps the magnitude >= 1, else the
\* smallest candidate; equal sizes go to the earlier declaration
Nicest(cands, base) ==
    LET fit == {i \in cands : AtLeastOne(base, i)}
        top == Max({Units[i].factor : i \in fit})
        low == Min({Units[i].factor : i \in cands})
    IN IF fit # {}
       THEN Min({i \in fit : Units[i].factor = top})
       ELSE Min({i \in cands : Units[i].factor = low})

ConvOk(q) == [q |-> q, error |-> None]
ConvErr(q, e) == [q |-> q, error |-> Some(e)]

\* value * from / to on both bounds
Rescale(value, from, to) ==
    [value EXCEPT !.start = RMul(@, Rat(from, to)), !.end = RMul(@, Rat(from, to))]

\* Quantity::convert to a unit system
convert_system(q, system) ==
    IF q.value.type = "Text" THEN ConvErr(q, "cannot convert non-numeric quantity")
    ELSE IF ~IsSome(q.unit) THEN ConvOk(q)
    ELSE IF ~Known(Unwrap(q.unit)) THEN ConvErr(q, "UnknownUnit")
    ELSE LET u == Lookup(Unwrap(q.unit))
             cands == Candidates(system, u.kind)
         IN IF cands = {} THEN ConvErr(q, "IncompatibleKind")
            ELSE LET best == Units[Nicest(cands, RMul(q.value.start, RInt(u.factor)))]
                 IN ConvOk(Quantity(Rescale(q.value, u.factor, best.factor), Some(best.name)))

\* Quantity::convert to a named unit
convert_unit(q, target) ==
    IF q.value.type = "Text" THEN ConvErr(q, "cannot convert non-numeric quantity")
    ELSE IF ~IsSome(q.unit) \/ ~Known(target) THEN ConvErr(q, "UnknownUnit")
    ELSE IF ~Known(Unwrap(q.unit)) THEN ConvErr(q, "UnknownUnit")
    ELSE LET u == Lookup(Unwrap(q.unit))
             t == Lookup(target)
         IN IF u.kind # t.kind THEN ConvErr(q, "IncompatibleKind")
            ELSE ConvOk(Quantity(Rescale(q.value, u.factor, t.factor), Some(t.name)))

(***************************************************************************)
(* Scaler.                                                                 *)
(***************************************************************************)
\* Number and both bounds of a Range are multiplied, Text is left alone
ScaleQuantity(q, factor) ==
    IF q.value.type = "Text" THEN q
    ELSE [q EXCEPT !.value.start = RMul(@, factor), !.value.end = RMul(@, factor)]

\* what is done to each quantity: scaling by a factor or converting to a system
ByFactor(factor) == [factor |-> Some(factor), system |-> None]
ToSystem(system) == [factor |-> None, system |-> Some(system)]
Transform(q, op) ==
    IF IsSome(op.factor) THEN ScaleQuantity(q, Unwrap(op.factor))
    ELSE convert_system(q, Unwrap(op.system)).q

\* apply op to the quantity of every entry that has one
MapEntries(list, op) ==
    [i \in 1..Len(list) |->
        IF IsSome(list[i].quantity)
        THEN [list[i] EXCEPT !.quantity = Some(Transform(Unwrap(@), op))] ELSE list[i]]

MapQuantities(r, op) ==
    [r EXCEPT !.ingredients = MapEntries(@, op),
              !.cookware = MapEntries(@, op),
              !.timers = MapEntries(@, op),
              !.inline_quantities = [i \in 1..Len(@) |-> Transform(@[i], op)]]

\* the recipe's declared servings, 1 when it declares none
BaseServings(r) == IF IsSome(r.metadata.servings) THEN Unwrap(r.metadata.servings) ELSE 1

\* Recipe::scale(target_servings, converter)
scale(r, target) == MapQuantities(r, ByFactor(Rat(target, BaseServings(r))))

\* Recipe::default_scale(): the target is the base itself
default_scale(r) == scale(r, BaseServings(r))

\* every quantity of a recipe, list by list
AllQuantities(r) ==
    LET of(list) == {Unwrap(list[i].quantity) : i \in {j \in 1..Len(list) : IsSome(list[j].quantity)}}
    IN of(r.ingredients) \cup of(r.cookware) \cup of(r.timers)
       \cup {r.inline_quantities[i] : i \in 1..Len(r.inline_quantities)}

\* ScaledRecipe::convert(system, converter): every quantity that converts is replaced,
\* the others stay; the errors are returned to the caller
convert(r, system) ==
    [recipe |-> MapQuantities(r, ToSystem(system)),
     errors |-> {convert_system(q, system).error : q \in AllQuantities(r)} \ {None}]

(***************************************************************************)
(* Grouper.                                                                *)
(***************************************************************************)
\* Modifiers::should_be_listed
should_be_listed(igr) == "hidden" \notin igr.mods
is_optional(igr) == "opt" \in igr.mods

\* the physical kind of a quantity as far as summing goes: a table kind, a bare
\* count, an unknown unit (only like itself) or text
GroupKind(q) ==
    IF q.value.type = "Text" THEN <<"text", "">>
    ELSE IF ~IsSome(q.unit) THEN <<"count", "">>
    ELSE IF Known(Unwrap(q.unit)) THEN <<Lookup(Unwrap(q.unit)).kind, "">>
    ELSE <<"unknown", Unwrap(q.unit)>>

FactorOf(q) ==
    IF IsSome(q.unit) /\ Known(Unwrap(q.unit)) THEN Lookup(Unwrap(q.unit)).factor ELSE 1

\* a + b, in the unit of a
AddQuantity(a, b) ==
    LET v == Rescale(b.value, FactorOf(b), FactorOf(a))
    IN [a EXCEPT !.value.type = IF "Range" \in {a.value.type, b.value.type}
                                THEN "Range" ELSE "Number",
                 !.value.start = RAdd(@, v.start),
                 !.value.end = RAdd(@, v.end)]

RECURSIVE SumFrom(_, _, _)
SumFrom(total, qs, i) ==
    IF i > Len(qs) THEN total ELSE SumFrom(AddQuantity(total, qs[i]), qs, i + 1)

\* the total of the quantities of one group and how it came out
Total(qs) ==
    IF qs = <<>> THEN [outcome |-> "Fixed", quantity |-> <<>>]
    ELSE IF /\ \A i \in 1..Len(qs) : GroupKind(qs[i]) = GroupKind(qs[1])
            /\ (Len(qs) = 1 \/ GroupKind(qs[1])[1] # "text")
    THEN [outcome |-> "Scaled", quantity |-> <<SumFrom(qs[1], qs, 2)>>]
    ELSE [outcome |-> "Error", quantity |-> qs]

\* positions (1-based) of the listed entries of a name, and of the first of each name
Members(list, name) ==
    {i \in 1..Len(list) : list[i].name = name /\ should_be_listed(list[i])}
IsFirst(list, i) ==
    should_be_listed(list[i]) /\ i = Min(Members(list, list[i].name))

RECURSIVE QuantitiesOf(_, _, _)
QuantitiesOf(list, name, i) ==
    IF i > Len(list) THEN <<>>
    ELSE (IF i \in Members(list, name) /\ IsSome(list[i].quantity)
          THEN <<Unwrap(list[i].quantity)>> ELSE <<>>) \o QuantitiesOf(list, name, i + 1)

RECURSIVE GroupFrom(_, _)
GroupFrom(list, i) ==
    IF i > Len(list) THEN <<>>
    ELSE (IF IsFirst(list, i)
          THEN LET t == Total(QuantitiesOf(list, list[i].name, 1))
               IN <<[index |-> i - 1, ingredient |-> list[i],
                     quantity |-> t.quantity, outcome |-> t.outcome]>>
          ELSE <<>>) \o GroupFrom(list, i + 1)

\* ScaledRecipe::group_ingredients(converter)
group_ingredients(r) == GroupFrom(r.ingredients, 1)

RECURSIVE CookwareFrom(_, _)
CookwareFrom(list, i) ==
    IF i > Len(list) THEN <<>>
    ELSE (IF IsFirst(list, i)
          THEN LET qs == QuantitiesOf(list, list[i].name, 1)
               IN <<[index |-> i - 1, cookware |-> list[i],
                     amount |-> [k \in 1..Len(qs) |-> qs[k].value]]>>
          ELSE <<>>) \o CookwareFrom(list, i + 1)

\* ScaledRecipe::group_cookware()
group_cookware(r) == CookwareFrom(r.cookware, 1)

(***************************************************************************)
(* The web handler `recipe` and its template context.                      *)
(***************************************************************************)
display_name(e) == IF IsSome(e.alias) THEN Unwrap(e.alias) ELSE e.name

\* get_field answering references_to with the ingredient's own position + 1
TemplateIngredient_WrongIndex(igr) ==
    [object |-> "TemplateIngredient",
     name |-> igr.name,
     display_name |-> display_name(igr),
     alias |-> igr.alias,
     quantity |-> igr.quantity,
     note |-> igr.note,
     references_to |-> IF IsSome(igr.relation)
                       THEN Some([index |-> Unwrap(igr.relation) + 1, target |-> "ingredient"])
                       ELSE None,
     modifiers |-> igr.mods]

\* the struct TemplateIngredient as a value of the template engine: `object` is
\* the type the value was made from, the other fields are those of get_field
TemplateIngredient(igr) ==
    [object |-> "TemplateIngredient",
     name |-> igr.name,
     display_name |-> display_name(igr),
     alias |-> igr.alias,
     quantity |-> igr.quantity,
     note |-> igr.note,
     references_to |-> IF IsSome(igr.relation)
                       THEN Some([index |-> Unwrap(igr.relation), target |-> "ingredient"])
                       ELSE None,
     modifiers |-> igr.mods]

\* the struct TemplateCookware and its get_field
TemplateCookware(cw) ==
    [object |-> "TemplateCookware",
     name |-> cw.name,
     display_name |-> display_name(cw),
     alias |-> cw.alias,
     quantity |-> cw.quantity,
     note |-> cw.note,
     references_to |-> cw.relation,
     modifiers |-> cw.mods]

\* one timer in seconds, when it has a numeric quantity that converts to "s"
TimerSeconds(t) ==
    IF ~IsSome(t.quantity) THEN None
    ELSE LET c == convert_unit(Unwrap(t.quantity), "s")
         IN IF IsSome(c.error) THEN None
            ELSE IF c.q.value.type = "Text" THEN None
            ELSE Some(c.q.value.start)

RECURSIVE FilterMapTimers(_, _)
FilterMapTimers(timers, i) ==
    IF i > Len(timers) THEN <<>>
    ELSE TimerSeconds(timers[i]) \o FilterMapTimers(timers, i + 1)

SpecialKeys == {"author", "source", "time", "servings", "tags", "description", "emoji"}

\* Metadata::map_filtered: the raw entries that are no special key
RECURSIVE map_filtered(_)
map_filtered(map) ==
    IF map = <<>> THEN <<>>
    ELSE (IF map[1].key \in SpecialKeys THEN <<>> ELSE <<map[1]>>) \o map_filtered(Tail(map))

\* config.ui: the emoji configured for a tag
UiConfig == [tags |-> <<[key |-> "sweet", val |-> ":cake:"]>>]

\* tag_context(name, &config.ui): the tag with its emoji, if one is configured
tag_context(name, ui) ==
    [emoji |-> IF MapHas(ui.tags, name) THEN Some(MapGet(ui.tags, name)) ELSE None,
     name |-> name]

\* the context! of lines 205-226, given the two groupings
context(r, gi, gc, cfg) ==
    [meta |-> [description |-> r.metadata.description,
               tags |-> [i \in 1..Len(r.metadata.tags) |->
                            tag_context(r.metadata.tags[i], cfg.ui)],
               emoji |-> r.metadata.emoji,
               author |-> r.metadata.author, source |-> r.metadata.source,
               time |-> r.metadata.time, servings |-> r.metadata.servings,
               other |-> map_filtered(r.metadata.map)],
     grouped_ingredients |->
         [i \in 1..Len(gi) |->
             [index |-> gi[i].index, outcome |-> gi[i].outcome,
              quantities |-> [k \in 1..Len(gi[i].quantity) |->
                                 [value |-> gi[i].quantity[k].value,
                                  unit |-> gi[i].quantity[k].unit]]]],
     grouped_cookware |->
         [i \in 1..Len(gc) |-> [index |-> gc[i].index, amounts |-> gc[i].amount]],
     sections |-> r.sections,
     ingredients |-> [i \in 1..Len(r.ingredients) |-> TemplateIngredient(r.ingredients[i])],
     cookware |-> [i \in 1..Len(r.cookware) |-> TemplateCookware(r.cookware[i])],
     timers |-> r.timers,
     timers_seconds |-> FilterMapTimers(r.timers, 1),
     inline_quantities |-> r.inline_quantities]

\* the context with only the first quantity of every group
make_recipe_context_FirstQuantity(r, cfg) ==
    context(r,
            [i \in 1..Len(group_ingredients(r)) |->
                [group_ingredients(r)[i] EXCEPT
                    !.quantity = IF @ = <<>> THEN <<>> ELSE <<@[1]>>]],
            group_cookware(r), cfg)

\* make_recipe_context(scaled, converter, config)
make_recipe_context(r, cfg) == context(r, group_ingredients(r), group_cookware(r), cfg)

\* query.units: None and "default" mean no conversion, a system name that system
ParseUnits(units) ==
    IF ~IsSome(units) \/ units = Some("default") THEN [ok |-> TRUE, units |-> None]
    ELSE IF Unwrap(units) \in Systems THEN [ok |-> TRUE, units |-> units]
    ELSE [ok |-> FALSE, units |-> None]

\* the handler always taking the default scale
Scaled_AlwaysDefault(scalable, q, units) ==
    LET r == default_scale(scalable)
    IN IF IsSome(units) THEN convert(r, Unwrap(units)).recipe ELSE r

\* the handler never converting
Scaled_NeverConverted(scalable, q, units) ==
    IF IsSome(q.scale) THEN scale(scalable, Unwrap(q.scale)) ELSE default_scale(scalable)

\* lines 79-89: scale to the requested servings, then convert if asked; the
\* result of convert is dropped
Scaled(scalable, q, units) ==
    LET r == IF IsSome(q.scale) THEN scale(scalable, Unwrap(q.scale))
             ELSE default_scale(scalable)
    IN IF IsSome(units) THEN convert(r, Unwrap(units)).recipe ELSE r

\* Response: its status and, of the context the template is rendered with,
\* is_valid, severity, report_html and r
Response(status, valid, severity, report, r) ==
    [status |-> status, is_valid |-> valid, severity |-> severity,
     report_html |-> report, r |-> r]

\* `return status.into_response()`, as ok_status! and mj_ok! do
Status(status) == Response(status, FALSE, "", None, None)

\* the handler propagating the errors of convert instead of dropping them
recipe_FailingOnConvert(result, q, cfg) ==
    IF result.ok
    THEN IF IsSome(ParseUnits(q.units).units)
            /\ convert(Scaled_NeverConverted(result.recipe, q, ParseUnits(q.units).units),
                       Unwrap(ParseUnits(q.units).units)).errors # {}
         THEN Status("INTERNAL_SERVER_ERROR")
         ELSE Response("OK", TRUE, "warning",
                       IF result.warnings = <<>> THEN None ELSE Some(result.warnings),
                       Some(make_recipe_context(
                                Scaled(result.recipe, q, ParseUnits(q.units).units), cfg)))
    ELSE Response("OK", FALSE, "error", Some(result.report), None)

\* lines 77-161, the two arms of `match res` when nothing they call fails: what
\* the handler answers for the result of the parse
recipe(result, q, cfg) ==
    IF result.ok
    THEN Response("OK", TRUE, "warning",
                  IF result.warnings = <<>> THEN None ELSE Some(result.warnings),
                  Some(make_recipe_context(
                           Scaled(result.recipe, q, ParseUnits(q.units).units), cfg)))
    ELSE Response("OK", FALSE, "error", Some(result.report), None)

(***************************************************************************)
(* The handler between its awaits.  A request in progress is               *)
(*   [pc, content, res, resp, calls, failed]                               *)
(* pc: "idle", "lookup" (awaiting recipe_index.get), "reading" (awaiting   *)
(* read_to_string), "parsing" (in block_in_place), "times" (awaiting       *)
(* get_times), "rendering" (in tmpl.render, where resolve_recipe calls      *)
(* block_in_place), "stepped" (in the render, after a call of              *)
(* step_ingredients) or "responded"; content is the text it read, res the  *)
(* result of its parse, resp its response (during the render, the context  *)
(* the page is rendered from),                                             *)
(* calls the names its checker was asked about and failed the call whose   *)
(* error ended the request.                                                *)
(***************************************************************************)
\* the paths a request can name
Paths == {"cake", "ghost", "nope", "../cake"}
\* check_path: every component of the path is a normal one
check_path(p) == p # "../cake"
\* recipe_index.get: the entry of a recipe the index knows
recipe_index_get(p) == IF p \in RecipeIndex THEN Some(<<"srv", p \o ".cook">>) ELSE None
\* what is at the path of an entry: only cake.cook is ever there
FileAt(p, disk) == IF p = "cake" THEN disk ELSE None

Finish(r, status, call) ==
    [r EXCEPT !.pc = "responded", !.resp = Status(status), !.failed = Some(call)]

\* lines 42-55: the units and the path are checked, then the index is asked
Requested(r, q, p) ==
    IF ~ParseUnits(q.units).ok THEN Finish(r, "BAD_REQUEST", "units")
    ELSE IF ~check_path(p) THEN Finish(r, "BAD_REQUEST", "check_path")
    ELSE [r EXCEPT !.pc = "lookup"]

\* lines 55-56: the answer of the index, then the file is asked for
LookedUp(r, p) ==
    IF ~IsSome(recipe_index_get(p)) THEN Finish(r, "NOT_FOUND", "recipe_index.get")
    ELSE [r EXCEPT !.pc = "reading"]

\* lines 66-101 and 150-160, after the parse: tmpl, html and render tell whether
\* get_template, report_to_html and render succeed
AfterPass(r, q, cfg, tmpl, html, render) ==
    IF ~tmpl THEN Finish(r, "INTERNAL_SERVER_ERROR", "get_template")
    ELSE IF r.res.ok
    THEN IF r.res.warnings # <<>> /\ ~html
         THEN Finish(r, "INTERNAL_SERVER_ERROR", "report_to_html")
         ELSE [r EXCEPT !.pc = "times"]
    ELSE IF ~html THEN Finish(r, "INTERNAL_SERVER_ERROR", "report_to_html")
    ELSE IF ~render THEN Finish(r, "INTERNAL_SERVER_ERROR", "render")
    ELSE [r EXCEPT !.pc = "responded", !.resp = recipe(r.res, q, cfg)]

\* lines 56-59: the file was read or not; the text that was read goes to the
\* parse, for which block_in_place hands the worker over to the other tasks
HaveRead(r, text) ==
    IF ~IsSome(text) THEN Finish(r, "NOT_FOUND", "read_to_string")
    ELSE [r EXCEPT !.pc = "parsing", !.content = Some(Unwrap(text))]

\* lines 58-64: the result of the parse and the names its checker was asked about
Passed(r, result) ==
    [r EXCEPT !.res = result, !.calls = result.calls]

\* lines 58-64: the text that was read is parsed with the checker
Parsing(r, cfg, self) ==
    parse_with_recipe_ref_checker(self, Unwrap(r.content), checker(cfg, Some(EntryPath)))

\* lines 58-101: with the result of the parse the handler goes on
HaveParsed(r, q, cfg, result, tmpl, html, render) ==
    AfterPass(Passed(r, result), q, cfg, tmpl, html, render)

\* lines 101-147: the times of the file, then the context of the page (resp,
\* which is no response before the render has ended), which the template begins
\* to render
Timed(r, q, cfg, text) ==
    IF ~IsSome(text) THEN Finish(r, "NOT_FOUND", "get_times")
    ELSE [r EXCEPT !.pc = "rendering", !.resp = recipe(r.res, q, cfg)]

\* lines 147-148: the render of the page ends, with an error or with the page
Rendered(r, render) ==
    IF ~render THEN Finish(r, "INTERNAL_SERVER_ERROR", "render")
    ELSE [r EXCEPT !.pc = "responded"]

(***************************************************************************)
(* step_ingredients(items, ingredients), the template function: for the    *)
(* ingredient items of one step, whether each is shown in the ingredients  *)
(* line and with which subscript.  The two HashMaps are sequences of       *)
(* entries with distinct keys.                                             *)
(***************************************************************************)
\* Value::downcast_object_ref::<TemplateIngredient>(): the value itself when it
\* was made from a TemplateIngredient, nothing for any other value: an object
\* of another type, or a record without the field `object` for a value that
\* is no object of the program
downcast_object_ref(value) ==
    IF "object" \in DOMAIN value /\ value.object = "TemplateIngredient"
    THEN Some(value) ELSE None

\* the closure get_igr: the ingredient at a 0-based index, or the error when the
\* list has no value there, or a value that is not a TemplateIngredient
get_igr(ingredients, index) ==
    IF ~(index < Len(ingredients))
    THEN [status |-> "UndefinedError", igr |-> None]
    ELSE IF ~IsSome(downcast_object_ref(ingredients[index + 1]))
    THEN [status |-> "InvalidOperation", igr |-> None]
    ELSE [status |-> "Ok", igr |-> downcast_object_ref(ingredients[index + 1])]

\* dedup.entry(name).or_default().push(index)
RECURSIVE Push(_, _, _)
Push(dedup, name, index) ==
    IF dedup = <<>> THEN <<[key |-> name, val |-> <<index>>]>>
    ELSE IF dedup[1].key = name
    THEN <<[key |-> name, val |-> Append(dedup[1].val, index)]>> \o Tail(dedup)
    ELSE <<dedup[1]>> \o Push(Tail(dedup), name, index)

StepOk(map) == [status |-> "Ok", map |-> map]
StepErr(kind) == [status |-> kind, map |-> <<>>]

\* the first pass skipping an index without ingredient instead of returning the error
RECURSIVE FirstPass_SkippingUndefined(_, _, _, _)
FirstPass_SkippingUndefined(dedup, items, k, ingredients) ==
    IF k > Len(items) THEN StepOk(dedup)
    ELSE IF items[k].type # "ingredient"
            \/ get_igr(ingredients, items[k].index).status = "UndefinedError"
    THEN FirstPass_SkippingUndefined(dedup, items, k + 1, ingredients)
    ELSE IF get_igr(ingredients, items[k].index).status # "Ok"
    THEN StepErr(get_igr(ingredients, items[k].index).status)
    ELSE FirstPass_SkippingUndefined(
             Push(dedup, Unwrap(get_igr(ingredients, items[k].index).igr).name,
                  items[k].index),
             items, k + 1, ingredients)

\* lines 366-379: the indices of the ingredient items by ingredient name; `?`
\* returns the error of get_igr
RECURSIVE FirstPass(_, _, _, _)
FirstPass(dedup, items, k, ingredients) ==
    IF k > Len(items) THEN StepOk(dedup)
    ELSE IF items[k].type # "ingredient" THEN FirstPass(dedup, items, k + 1, ingredients)
    ELSE IF get_igr(ingredients, items[k].index).status # "Ok"
    THEN StepErr(get_igr(ingredients, items[k].index).status)
    ELSE FirstPass(Push(dedup, Unwrap(get_igr(ingredients, items[k].index).igr).name,
                        items[k].index),
                   items, k + 1, ingredients)

\* lines 380-389: retain the indices with a quantity, or the first one
Retain(group, ingredients) ==
    LET has_quantity(i) == IsSome(Unwrap(get_igr(ingredients, i).igr).quantity)
        kept == SelectSeq(group, has_quantity)
    IN IF kept = <<>> THEN <<group[1]>> ELSE kept

RetainAll(dedup, ingredients) ==
    [g \in 1..Len(dedup) |-> [dedup[g] EXCEPT !.val = Retain(@, ingredients)]]

\* group.iter().position(|&i| i == index)
Position(group, index) ==
    IF \E p \in 1..Len(group) : group[p] = index
    THEN Some(Min({p \in 1..Len(group) : group[p] = index}) - 1)
    ELSE None

\* lines 408-420: the entry of one ingredient item
StepEntry(group, index) ==
    [in_ingredients_line |-> IsSome(Position(group, index)),
     subscript |-> IF Len(group) > 1 /\ IsSome(Position(group, index))
                   THEN Some(Unwrap(Position(group, index)) + 1) ELSE None]

\* lines 391-421: get_igr(index).unwrap() panics when get_igr has an error
RECURSIVE SecondPass(_, _, _, _, _)
SecondPass(out, dedup, items, k, ingredients) ==
    IF k > Len(items) THEN StepOk(out)
    ELSE IF items[k].type # "ingredient" THEN SecondPass(out, dedup, items, k + 1, ingredients)
    ELSE IF get_igr(ingredients, items[k].index).status # "Ok" THEN StepErr("panic")
    ELSE IF ~MapHas(dedup, Unwrap(get_igr(ingredients, items[k].index).igr).name)
    THEN SecondPass(out, dedup, items, k + 1, ingredients)
    ELSE SecondPass(
             MapInsert(out, items[k].index,
                       StepEntry(MapGet(dedup,
                                        Unwrap(get_igr(ingredients, items[k].index).igr).name),
                                 items[k].index)),
             dedup, items, k + 1, ingredients)

AfterFirstPass(first, items, ingredients) ==
    IF first.status # "Ok" THEN first
    ELSE SecondPass(<<>>, RetainAll(first.map, ingredients), items, 1, ingredients)

step_ingredients(items, ingredients) ==
    AfterFirstPass(FirstPass(<<>>, items, 1, ingredients), items, ingredients)

(***************************************************************************)
(* Display of numbers, values and quantities, as the core formats them.    *)
(***************************************************************************)
Pad3(k) ==
    IF k < 10 THEN "00" \o ToString(k)
    ELSE IF k < 100 THEN "0" \o ToString(k) ELSE ToString(k)

RECURSIVE TrimZeros(_)
TrimZeros(str) ==
    IF str # "" /\ SubSeq(str, Len(str), Len(str)) = "0"
    THEN TrimZeros(SubSeq(str, 1, Len(str) - 1)) ELSE str

\* a number rounded to three decimals, without trailing zeros
FmtNumber(r) ==
    IF ((2000 * r[1] + r[2]) \div (2 * r[2])) % 1000 = 0
    THEN ToString(((2000 * r[1] + r[2]) \div (2 * r[2])) \div 1000)
    ELSE ToString(((2000 * r[1] + r[2]) \div (2 * r[2])) \div 1000) \o "."
         \o TrimZeros(Pad3(((2000 * r[1] + r[2]) \div (2 * r[2])) % 1000))

FmtValue(v) ==
    CASE v.type = "Number" -> FmtNumber(v.start)
      [] v.type = "Range" -> FmtNumber(v.start) \o "-" \o FmtNumber(v.end)
      [] OTHER -> v.text

\* a quantity: the value, then a space and the unit when there is one
FmtQuantity(q) == FmtValue(q.value) \o (IF IsSome(q.unit) THEN " " \o Unwrap(q.unit) ELSE "")

\* a grouped quantity or amount: its parts separated by ", "
RECURSIVE FmtQuantities(_, _)
FmtQuantities(qs, i) ==
    IF i > Len(qs) THEN ""
    ELSE FmtQuantity(qs[i]) \o (IF i < Len(qs) THEN ", " ELSE "") \o FmtQuantities(qs, i + 1)

RECURSIVE FmtValues(_, _)
FmtValues(vs, i) ==
    IF i > Len(vs) THEN ""
    ELSE FmtValue(vs[i]) \o (IF i < Len(vs) THEN ", " ELSE "") \o FmtValues(vs, i + 1)

(***************************************************************************)
(* textwrap::wrap(text, options): the lines of a text wrapped to a width,  *)
(* each after an indent.  Words are separated by spaces, may be broken     *)
(* after a hyphen between letters or digits, and are cut when they are     *)
(* wider than a line; the breaks are those of least cost.                  *)
(***************************************************************************)
Ch(str, i) == SubSeq(str, i, i)

Alnum ==
    {"a", "b", "c", "d", "e", "f", "g", "h", "i", "j", "k", "l", "m", "n", "o", "p", "q",
     "r", "s", "t", "u", "v", "w", "x", "y", "z", "A", "B", "C", "D", "E", "F", "G", "H",
     "I", "J", "K", "L", "M", "N", "O", "P", "Q", "R", "S", "T", "U", "V", "W", "X", "Y",
     "Z", "0", "1", "2", "3", "4", "5", "6", "7", "8", "9"}

\* the k-th of a set of positions, in increasing order
Nth(S, k) == CHOOSE i \in S : Cardinality({j \in S : j < i}) = k - 1

\* text.split('\n')
NewLines(text) == {i \in 1..Len(text) : Ch(text, i) = "\n"}
SplitLines(text) ==
    [k \in 1..(Cardinality(NewLines(text)) + 1) |->
        SubSeq(text,
               IF k = 1 THEN 1 ELSE Nth(NewLines(text), k - 1) + 1,
               IF k > Cardinality(NewLines(text)) THEN Len(text)
               ELSE Nth(NewLines(text), k) - 1)]

\* trim_end_matches(' ')
TrimEnd(str) ==
    IF \A i \in 1..Len(str) : Ch(str, i) = " " THEN ""
    ELSE SubSeq(str, 1, CHOOSE i \in 1..Len(str) :
                           /\ Ch(str, i) # " "
                           /\ \A j \in (i + 1)..Len(str) : Ch(str, j) = " ")

\* a word and the spaces that follow it
Word(word, ws) == [word |-> word, ws |-> ws]

\* find_words of AsciiSpace: a word begins where a space is followed by another
\* character
WordStarts(line) ==
    {i \in 1..Len(line) : i = 1 \/ (Ch(line, i) # " " /\ Ch(line, i - 1) = " ")}
WordFrom(piece) ==
    Word(TrimEnd(piece), SubSeq(piece, Len(TrimEnd(piece)) + 1, Len(piece)))
FindWords(line) ==
    [k \in 1..Cardinality(WordStarts(line)) |->
        WordFrom(SubSeq(line, Nth(WordStarts(line), k),
                        IF k = Cardinality(WordStarts(line)) THEN Len(line)
                        ELSE Nth(WordStarts(line), k + 1) - 1))]

\* HyphenSplitter: a word may be broken after a hyphen between two alphanumerics
RECURSIVE HyphenSplit(_, _, _, _)
HyphenSplit(word, ws, i, piece) ==
    IF i > Len(word) THEN <<Word(piece, ws)>>
    ELSE IF /\ Ch(word, i) = "-" /\ i > 1 /\ i < Len(word)
            /\ Ch(word, i - 1) \in Alnum /\ Ch(word, i + 1) \in Alnum
    THEN <<Word(piece \o "-", "")>> \o HyphenSplit(word, ws, i + 1, "")
    ELSE HyphenSplit(word, ws, i + 1, piece \o Ch(word, i))

\* break_words: a word wider than the line is cut into pieces of the line's width
RECURSIVE BreakWord(_, _, _)
BreakWord(word, ws, width) ==
    IF Len(word) <= width THEN <<Word(word, ws)>>
    ELSE <<Word(SubSeq(word, 1, width), "")>>
         \o BreakWord(SubSeq(word, width + 1, Len(word)), ws, width)

RECURSIVE BreakAll(_, _, _)
BreakAll(words, k, width) ==
    IF k > Len(words) THEN <<>>
    ELSE BreakWord(words[k].word, words[k].ws, width) \o BreakAll(words, k + 1, width)

RECURSIVE SplitAll(_, _)
SplitAll(words, k) ==
    IF k > Len(words) THEN <<>>
    ELSE HyphenSplit(words[k].word, words[k].ws, 1, "") \o SplitAll(words, k + 1)

\* the text of the fragments i+1..j on one line, without the spaces at its end
RECURSIVE LineText(_, _, _)
LineText(frags, i, j) ==
    IF i >= j THEN ""
    ELSE frags[i + 1].word \o (IF i + 1 < j THEN frags[i + 1].ws ELSE "")
         \o LineText(frags, i + 1, j)

\* wrap_optimal_fit: the cost of a line of `width` columns that ends with fragment
\* j of n after a break of cost `before`; `single` says that it holds one fragment
LineCost(before, width, j, n, single, target) ==
    before + 1000
    + (IF width > target THEN (width - target) * 2500
       ELSE IF j < n THEN (target - width) * (target - width)
       ELSE IF single /\ 4 * width < target THEN 25 ELSE 0)

\* the costs of ending a line with fragment j, by the break i - 1 before it
Costs(minima, frags, j, target) ==
    [i \in 1..j |->
        LineCost(minima[i].cost, Len(LineText(frags, i - 1, j)), j, Len(frags), i = j, target)]

\* the first of the breaks of least cost
Least(costs) ==
    CHOOSE i \in DOMAIN costs :
        \A k \in DOMAIN costs : costs[i] < costs[k] \/ (costs[i] = costs[k] /\ i <= k)

Cheapest(costs) == [prev |-> Least(costs) - 1, cost |-> costs[Least(costs)]]

\* minima[j + 1]: the best last break before fragment j + 1 and the cost up to j
LastBreak(minima, frags, j, target) == Cheapest(Costs(minima, frags, j, target))

\* the element of a set of one
Only(S) == CHOOSE x \in S : TRUE

RECURSIVE Minima(_, _, _)
Minima(minima, frags, target) ==
    IF Len(minima) > Len(frags) THEN minima
    ELSE Only({Minima(m, frags, target) :
                  m \in {Append(minima, LastBreak(minima, frags, Len(minima), target))}})

RECURSIVE WrappedLines(_, _, _, _)
WrappedLines(minima, frags, pos, indent) ==
    (IF minima[pos + 1].prev = 0 THEN <<>>
     ELSE WrappedLines(minima, frags, minima[pos + 1].prev, indent))
    \o <<indent \o LineText(frags, minima[pos + 1].prev, pos)>>

wrap_optimal_fit(frags, target, indent) ==
    Only({WrappedLines(m, frags, Len(frags), indent) :
             m \in {Minima(<<[prev |-> 0, cost |-> 0]>>, frags, target)}})

\* one line of the text: as it is when it is short and there is no indent
wrap_single_line(line, width, indent) ==
    IF Len(line) < width /\ indent = "" THEN <<TrimEnd(line)>>
    ELSE Only({wrap_optimal_fit(frags, IF width > Len(indent) THEN width - Len(indent) ELSE 1,
                                indent) :
                  frags \in {(IF indent = "" THEN <<>> ELSE <<Word("", "")>>)
                             \o BreakAll(SplitAll(FindWords(line), 1), 1,
                                         IF width > Len(indent) THEN width - Len(indent)
                                         ELSE 1)}})

RECURSIVE WrapLines(_, _, _, _)
WrapLines(lines, k, width, indent) ==
    IF k > Len(lines) THEN <<>>
    ELSE wrap_single_line(lines[k], width, indent) \o WrapLines(lines, k + 1, width, indent)

\* textwrap::wrap with the same initial and subsequent indent
wrap(text, width, indent) == WrapLines(SplitLines(text), 1, width, indent)

(***************************************************************************)
(* The Markdown writer.  The output is the front matter (the YAML map, in  *)
(* order) and the body, the sequence of the lines written.                 *)
(***************************************************************************)
\* textwrap::termwidth(): the columns of the terminal the writer runs in
termwidth == 80
TERM_WIDTH == IF termwidth < 80 THEN termwidth ELSE 80

\* the lines print_wrapped_with_options writes: the text wrapped at TERM_WIDTH
print_wrapped_with_options(text, indent) == wrap(text, TERM_WIDTH, indent)
print_wrapped(text) == print_wrapped_with_options(text, "")

\* Options::default
OptionsDefault ==
    [tags |-> TRUE, description |-> TRUE, escape_step_numbers |-> FALSE,
     front_matter_name |-> TRUE]

\* a YAML value of the front matter: a raw string or a typed value
Yaml(kind, text, num, list) == [kind |-> kind, text |-> text, num |-> num, list |-> list]
YamlStr(text) == Yaml("string", text, 0, <<>>)
YamlNum(n) == Yaml("number", "", n, <<>>)
YamlSeq(list) == Yaml("sequence", "", 0, list)
\* a structured value (name and url) serializes as a mapping, not as its raw text
YamlMap(text) == Yaml("mapping", text, 0, <<>>)

RECURSIVE InsertAll(_, _)
InsertAll(map, raw) ==
    IF raw = <<>> THEN map
    ELSE InsertAll(MapInsert(map, raw[1].key, YamlStr(raw[1].val)), Tail(raw))

\* override_special_key!: the typed value when there is one
OverrideOpt(map, key, opt) ==
    IF IsSome(opt) THEN MapInsert(map, key, Unwrap(opt)) ELSE map

\* serde_yaml::to_value of a typed field that is there
ToValue(opt, kind) ==
    IF ~IsSome(opt) THEN None
    ELSE IF kind = "number" THEN Some(YamlNum(Unwrap(opt))) ELSE Some(YamlMap(Unwrap(opt)))

frontmatter(metadata, name, opts) ==
    IF metadata.map = <<>> THEN <<>>
    ELSE LET m0 == IF opts.front_matter_name
                   THEN MapInsert(<<>>, "name", YamlStr(name)) ELSE <<>>
             m1 == InsertAll(m0, metadata.map)
             m2 == OverrideOpt(m1, "author", ToValue(metadata.author, "mapping"))
             m3 == OverrideOpt(m2, "source", ToValue(metadata.source, "mapping"))
             m4 == OverrideOpt(m3, "time", ToValue(metadata.time, "number"))
             m5 == OverrideOpt(m4, "servings", ToValue(metadata.servings, "number"))
         IN IF metadata.tags # <<>>
            THEN MapInsert(m5, "tags", YamlSeq(metadata.tags)) ELSE m5

\* what a writer has written, and whether it panicked after that
Written(text) == [panic |-> FALSE, text |-> text]
Panic == [panic |-> TRUE, text |-> <<>>]
\* a, then b: what a wrote stays written when b panics
Join(a, b) == IF a.panic THEN a ELSE [panic |-> b.panic, text |-> a.text \o b.text]

\* list[index] of the source: a panic when the index is out of range
At(list, index) == IF index < Len(list) THEN Some(list[index + 1]) ELSE None

\* the string a step is built in, or the panic of a lookup
Str(str) == [panic |-> FALSE, str |-> str]
NoStr == [panic |-> TRUE, str |-> ""]

\* what one item adds to the string of its step
w_item(item, r) ==
    CASE item.type = "text" -> Str(item.value)
      [] item.type = "ingredient" ->
            IF IsSome(At(r.ingredients, item.index))
            THEN Str(display_name(Unwrap(At(r.ingredients, item.index)))) ELSE NoStr
      [] item.type = "cookware" ->
            IF IsSome(At(r.cookware, item.index))
            THEN Str(Unwrap(At(r.cookware, item.index)).name) ELSE NoStr
      [] item.type = "timer" ->
            IF IsSome(At(r.timers, item.index))
            THEN Str((IF Unwrap(At(r.timers, item.index)).name # ""
                      THEN "(" \o Unwrap(At(r.timers, item.index)).name \o ")" ELSE "")
                     \o (IF IsSome(Unwrap(At(r.timers, item.index)).quantity)
                         THEN FmtQuantity(Unwrap(Unwrap(At(r.timers, item.index)).quantity))
                         ELSE ""))
            ELSE NoStr
      [] OTHER ->
            IF IsSome(At(r.inline_quantities, item.index))
            THEN Str(FmtValue(Unwrap(At(r.inline_quantities, item.index)).value)
                     \o (IF IsSome(Unwrap(At(r.inline_quantities, item.index)).unit)
                         THEN Unwrap(Unwrap(At(r.inline_quantities, item.index)).unit)
                         ELSE ""))
            ELSE NoStr

RECURSIVE w_items(_, _, _, _)
w_items(step_str, items, k, r) ==
    IF k > Len(items) THEN Str(step_str)
    ELSE IF w_item(items[k], r).panic THEN NoStr
    ELSE w_items(step_str \o w_item(items[k], r).str, items, k + 1, r)

\* the string of the step when no lookup panicked, wrapped
WrappedStep(step_str) ==
    IF step_str.panic THEN Panic ELSE Written(print_wrapped(step_str.str))

\* a step: its number, the items one after the other, and the whole wrapped
w_step(step, r, opts) ==
    WrappedStep(w_items(ToString(step.number)
                        \o (IF opts.escape_step_numbers THEN "\\. " ELSE ". "),
                        step.items, 1, r))

\* the loop of w_section: a step or a block of text, and an empty line after each
RECURSIVE w_steps(_, _, _, _)
w_steps(content, t, r, opts) ==
    IF t > Len(content) THEN Written(<<>>)
    ELSE Join(Join(IF content[t].type = "step" THEN w_step(content[t], r, opts)
                   ELSE Written(print_wrapped(content[t].value)),
                   Written(<<"">>)),
              w_steps(content, t + 1, r, opts))

w_section(section, r, idx, opts) ==
    Join(Written(IF IsSome(section.name) THEN <<"### " \o Unwrap(section.name)>>
                 ELSE IF Len(r.sections) > 1 THEN <<"### Section " \o ToString(idx)>>
                 ELSE <<>>),
         w_steps(section.content, 1, r, opts))

RECURSIVE w_sections(_, _, _)
w_sections(r, idx, opts) ==
    IF idx > Len(r.sections) THEN Written(<<>>)
    ELSE Join(w_section(r.sections[idx], r, idx, opts), w_sections(r, idx + 1, opts))

sections(r, opts) == Join(Written(<<"## Steps">>), w_sections(r, 1, opts))

\* the suffixes of a listed ingredient or cookware
Suffix(e) ==
    (IF is_optional(e) THEN " (optional)" ELSE "")
    \o (IF IsSome(e.note) THEN " (" \o Unwrap(e.note) \o ")" ELSE "")

RECURSIVE ListLines(_, _)
ListLines(entries, i) ==
    IF i > Len(entries) THEN <<>>
    ELSE (IF should_be_listed(entries[i].entry)
          THEN <<"- " \o (IF entries[i].parts # <<>> THEN "*" \o entries[i].quantity \o "* "
                          ELSE "")
                 \o display_name(entries[i].entry) \o Suffix(entries[i].entry)>>
          ELSE <<>>) \o ListLines(entries, i + 1)

\* the entries of the list with the parts of their quantity, which is_empty
\* asks about, and the quantity as it is displayed
IngredientEntries(g) ==
    [i \in 1..Len(g) |-> [entry |-> g[i].ingredient,
                          parts |-> g[i].quantity,
                          quantity |-> FmtQuantities(g[i].quantity, 1)]]

ingredients(r) ==
    IF r.ingredients = <<>> THEN <<>>
    ELSE <<"## Ingredients">>
         \o ListLines(IngredientEntries(group_ingredients(r)), 1)
         \o <<"">>

CookwareEntries(g) ==
    [i \in 1..Len(g) |-> [entry |-> g[i].cookware,
                          parts |-> g[i].amount,
                          quantity |-> FmtValues(g[i].amount, 1)]]

cookware(r) ==
    IF r.cookware = <<>> THEN <<>>
    ELSE <<"## Cookware">>
         \o ListLines(CookwareEntries(group_cookware(r)), 1)
         \o <<"">>

\* the tags on one line, each after a `#`
RECURSIVE TagLine(_, _)
TagLine(tags, i) ==
    IF i > Len(tags) THEN ""
    ELSE "#" \o tags[i] \o (IF i < Len(tags) THEN " " ELSE "") \o TagLine(tags, i + 1)

\* lines 105-130, the steps last; what was written stays when a step panics
Body(r, name, opts, steps) ==
    <<"# " \o name>>
    \o (IF opts.tags /\ r.metadata.tags # <<>>
        THEN <<"", TagLine(r.metadata.tags, 1)>> ELSE <<>>)
    \o (IF opts.description /\ IsSome(r.metadata.description)
        THEN <<"">> \o print_wrapped_with_options(Unwrap(r.metadata.description), "> ")
             \o <<"">>
        ELSE <<>>)
    \o ingredients(r) \o cookware(r)
    \o steps.text

Printing(r, name, opts, steps) ==
    [front |-> frontmatter(r.metadata, name, opts),
     panic |-> steps.panic,
     body |-> Body(r, name, opts, steps)]

print_md_with_options(r, name, opts) == Printing(r, name, opts, sections(r, opts))

(***************************************************************************)
(* Recipe texts and requests.                                              *)
(***************************************************************************)
Seqs(S, n) == UNION {[1..k -> S] : k \in 1..n}

Q(n, d, unit) == Some(Quantity(Number(Rat(n, d)), Some(unit)))

TokText == Plain("text", "Mix ", None)
TokParagraph == Plain("paragraph", "A note\nto read", None)
\* a text wider than a line of the terminal
TokLong ==
    Plain("text",
          "Thoroughly incorporate everything, alternating ingredients "
          \o "continuously throughout", None)
TokBroken == Plain("broken", "@flour{200", None)
TokSection == Tok("section", "Dough", {}, None, None, None, "", SECTIONS)
TokFlour == Plain("ingredient", "flour", Q(200, 1, "g"))
TokRefFlour == WithMods("ingredient", "flour", {"ref"}, None)
TokBadServings == Meta("servings", "many")

DiagTokens == {TokText, TokBroken, TokSection, TokFlour, TokRefFlour, TokBadServings}

TokNewFlour == WithMods("ingredient", "flour", {"new"}, Q(1, 1, "kg"))
TokFlourCap == Plain("ingredient", "Flour", None)
TokPot == Plain("cookware", "pot", None)
TokRefPot == WithMods("cookware", "pot", {"ref"}, None)
TokBread == WithMods("ingredient", "bread", {"recipe"}, None)
TokSecret == WithMods("ingredient", "secret", {"recipe"}, None)
TokTimer == Plain("timer", "rest", Q(10, 1, "min"))
TokInline == Plain("inline", "", Q(2, 1, "l"))
TokBlank == Plain("blank", "", None)

RefTokens ==
    {TokFlour, TokRefFlour, TokNewFlour, TokFlourCap, TokPot, TokRefPot, TokBread, TokSecret}

\* quantities to scale
TokServings == Meta("servings", "4")
TokServings3 == Meta("servings", "3")
TokWater == Plain("ingredient", "water", Q(1, 1, "l"))
TokMilkRange == Plain("ingredient", "milk", Some(Quantity(Range(Rat(1, 2), Rat(2, 1)), Some("kg"))))
TokButterText == Plain("ingredient", "butter", Some(Quantity(Text("some"), None)))

ScaleTokens ==
    {TokServings, TokServings3, TokFlour, TokWater, TokMilkRange, TokButterText, TokTimer,
     TokInline}

\* quantities to convert: known, unknown and missing units, text, a timer
TokFlourKg == Plain("ingredient", "flour", Q(3, 10, "kg"))
TokMilkCc == Plain("ingredient", "milk", Q(1, 2, "cc"))
TokCream == Plain("ingredient", "cream", Q(5, 1, "cc"))
TokPinch == Plain("ingredient", "salt", Q(1, 1, "pinch"))

ConvTokens ==
    {TokFlour, TokFlourKg, TokWater, TokMilkCc, TokCream, TokMilkRange, TokPinch,
     TokButterText, TokTimer}

\* mentions of one name to group: mass, volume, count, text, unknown unit, none, hidden
TokFlourCount == Plain("ingredient", "flour", Some(Quantity(Number(<<2, 1>>), None)))
TokFlourBare == Plain("ingredient", "flour", None)
TokFlourMl == Plain("ingredient", "flour", Q(100, 1, "ml"))
TokFlourHidden == WithMods("ingredient", "flour", {"hidden"}, Q(1, 1, "kg"))
TokSaltBare == Plain("ingredient", "salt", None)
TokFlourText == Plain("ingredient", "flour", Some(Quantity(Text("some"), None)))
TokFlourPinch == Plain("ingredient", "flour", Q(1, 1, "pinch"))

GroupTokens ==
    {TokFlour, TokFlourKg, TokFlourCount, TokFlourBare, TokFlourMl, TokFlourHidden,
     TokSaltBare, TokWater, TokFlourText, TokFlourPinch}

\* metadata lines: typed keys, a value of the wrong shape, other keys and `name`
TokName == Meta("name", "Pie")
TokAuthor == Meta("author", "Ann")
TokTags == Meta("tags", "sweet")
TokTime == Meta("time", "2")
TokCourse == Meta("course", "main")
TokEmoji == Meta("emoji", ":pie:")
TokDescription ==
    Meta("description",
         "A pie of apples and of pears, baked in the oven until the crust is golden-brown")

MetaTokens ==
    {TokServings, TokBadServings, TokName, TokAuthor, TokTags, TokTime, TokCourse, TokEmoji,
     TokDescription, TokFlour}

\* steps that mention an ingredient several times, with and without quantity
StepTokens == {TokFlour, TokFlourBare, TokFlourKg, TokSaltBare, TokPot, TokBlank, TokText}

\* references to recipes by path: below the base path, outside of it, through a symlink
TokDough == WithMods("ingredient", "dough", {"recipe"}, None)
TokLink == WithMods("ingredient", "link", {"recipe"}, None)
TokPie == WithMods("ingredient", "pie", {"recipe"}, None)
TokNotes == WithMods("ingredient", "notes", {"recipe"}, None)
TokRaw == WithMods("ingredient", "raw", {"recipe"}, None)
TokLost == WithMods("ingredient", "lost", {"recipe"}, None)

PathTokens == {TokBread, TokSecret, TokDough, TokLink, TokPie, TokNotes, TokRaw, TokLost}

\* one construct per extension flag, and one that needs three of them
TokNote == Tok("ingredient", "flour", {}, None, Some("sifted"), None, "", INGREDIENT_NOTE)
TokAlias == Tok("ingredient", "flour", {}, Some("fl"), None, None, "", INGREDIENT_ALIAS)
TokFull ==
    Tok("ingredient", "salt", {"opt"}, Some("sea salt"), Some("fine"), None, "", INGREDIENT_ALL)
TokAdvanced == Tok("ingredient", "milk", {}, None, None, Q(1, 2, "l"), "", ADVANCED_UNITS)
TokMode == Tok("mode", "steps", {}, None, None, None, "", MODES)
TokTemperature == Tok("temperature", "", {}, None, None, Q(180, 1, "C"), "", TEMPERATURE)
TokTerminator == Tok("terminator", "", {}, None, None, None, "", MULTINE_STEPS)

GatedTokens ==
    {TokRefFlour, TokNote, TokAlias, TokFull, TokSection, TokAdvanced, TokMode,
     TokTemperature, TokTerminator}

IndexTokens ==
    {TokFlour, TokRefFlour, TokPot, TokRefPot, TokTimer, TokInline, TokBlank, TokSection,
     TokText, TokParagraph, TokLong}

NoResult == Err(<<>>)
NoResponse == Response("", FALSE, "", None, None)
NoMarkdown == [front |-> <<>>, panic |-> FALSE, body |-> <<>>]
NoStep == [items |-> <<>>, ingredients |-> <<>>, result |-> StepOk(<<>>)]
\* a caller that has not begun
Idle == [pc |-> "idle", content |-> None, res |-> NoResult, resp |-> NoResponse,
         calls |-> <<>>, failed |-> None, self |-> None]

Start ==
    /\ req_path = ""
    /\ busy = (Len(input) <= MaxRaceLen)
    /\ file = Some(input)
    /\ me = Idle
    /\ other = Idle
    /\ markdown = NoMarkdown
    /\ stepped = NoStep

\* the initial states: a text over `tokens` and one configuration of each kind
InitWith(tokens, len, exts, waes, checks, queries, optionss) ==
    /\ input \in Seqs(tokens, len)
    /\ parser \in [extensions : exts, warnings_as_errors : waes, converter : {None}]
    /\ config \in [recipe_ref_check : checks, ui : {UiConfig}]
    /\ query \in queries
    /\ options \in optionss
    /\ Start

NoQuery == [scale : {None}, units : {None}]

\* texts that make the phases record diagnostics
Init ==
    InitWith(DiagTokens, MaxLen,
             {ExtAll, Remove(ExtAll, SECTIONS), Remove(ExtAll, INGREDIENT_MODIFIERS)},
             BOOLEAN, {FALSE}, NoQuery, {OptionsDefault})

\* texts of mentions that refer to each other and to other recipes
InitRef == InitWith(RefTokens, MaxLen, {ExtAll}, BOOLEAN, BOOLEAN, NoQuery, {OptionsDefault})

\* texts of extension syntax, parsed with one extension disabled or none
InitExt ==
    InitWith(GatedTokens, MaxExtLen, {ExtAll} \cup {Remove(ExtAll, f) : f \in Flags}, BOOLEAN, {FALSE},
             NoQuery, {OptionsDefault})

\* texts with quantities, requested at a number of servings or at the default
InitScale ==
    InitWith(ScaleTokens, MaxLen, {ExtAll}, {FALSE}, {FALSE},
             [scale : {None} \cup {Some(n) : n \in 0..MaxScale}, units : {None}],
             {OptionsDefault})

\* texts with quantities, requested in a unit system, in none or in a bad one
InitConv ==
    InitWith(ConvTokens, MaxLen, {ExtAll}, {FALSE}, {FALSE},
             [scale : {None},
              units : {None, Some("default"), Some("metric"), Some("imperial"), Some("bogus")}],
             {OptionsDefault})

\* texts that mention one ingredient several times, as parsed or in metric units
InitGroup ==
    InitWith(GroupTokens, MaxLen, {ExtAll}, {FALSE}, {FALSE},
             [scale : {None}, units : {None, Some("metric")}], {OptionsDefault})

\* texts with metadata, printed with and without the name in the front matter
InitMeta ==
    InitWith(MetaTokens, MaxLen, {ExtAll}, {FALSE}, {FALSE}, NoQuery,
             {[OptionsDefault EXCEPT !.front_matter_name = b] : b \in BOOLEAN})

\* texts whose steps repeat ingredients
InitStep == InitWith(StepTokens, MaxLen, {ExtAll}, {FALSE}, {FALSE}, NoQuery, {OptionsDefault})

\* texts that reference other recipes, served with and without the reference check
InitPath == InitWith(PathTokens, MaxLen, {ExtAll}, {FALSE}, BOOLEAN, NoQuery, {OptionsDefault})

\* texts with items of every kind, in several steps and sections
InitIndex == InitWith(IndexTokens, MaxLen, {ExtAll}, {FALSE}, {FALSE}, NoQuery, {OptionsDefault})

\* the caller that owns the parser: the library's, before it parses and with
\* a result in its hands.  The handlers of the server are given theirs in the
\* shared state of the server, which no handler can change: a caller that has
\* called a setter is the library's ("built"), and makes no request.
Owns(r) == r.pc \in {"idle", "built", "parsed", "printed"}
Built(r) == IF r.pc = "idle" THEN [r EXCEPT !.pc = "built"] ELSE r

\* the arguments the setters are called with
ExtensionsArgs == {Remove(ExtAll, SECTIONS)}
ConverterArgs == {Units}

\* CooklangParser::with_converter(converter)
with_converter(self, converter) == [self EXCEPT !.converter = Some(converter)]

\* CooklangParser::with_extensions(extensions)
with_extensions(self, extensions) == [self EXCEPT !.extensions = extensions]

\* CooklangParser::warnings_as_errors(as_err)
warnings_as_errors(self, as_err) == [self EXCEPT !.warnings_as_errors = as_err]

\* the behaviours in which the setters are followed: those of a short text and
\* of no query, which a caller of the library does not have
Reconfigures == Len(input) <= MaxSetLen /\ query \in NoQuery

\* a call of a setter, at any time before, between and after the parses
WithConverter ==
    /\ Owns(me)
    /\ Reconfigures
    /\ \E converter \in ConverterArgs : parser' = with_converter(parser, converter)
    /\ me' = Built(me)
    /\ UNCHANGED <<input, config, query, busy, req_path, options, file, other, markdown, stepped>>

WithExtensions ==
    /\ Owns(me)
    /\ Reconfigures
    /\ \E extensions \in ExtensionsArgs : parser' = with_extensions(parser, extensions)
    /\ me' = Built(me)
    /\ UNCHANGED <<input, config, query, busy, req_path, options, file, other, markdown, stepped>>

WarningsAsErrors ==
    /\ Owns(me)
    /\ Reconfigures
    /\ \E as_err \in BOOLEAN : parser' = warnings_as_errors(parser, as_err)
    /\ me' = Built(me)
    /\ UNCHANGED <<input, config, query, busy, req_path, options, file, other, markdown, stepped>>

\* a direct call of the library: CooklangParser::parse(input, recipe_name); a
\* parse on the parser that has parsed is followed where the setters are
Parse ==
    /\ me.pc = "idle" \/ (Owns(me) /\ Reconfigures)
    /\ me' = [me EXCEPT !.pc = "parsed", !.res = parse(parser, input, "cake"),
                        !.self = Some(parser)]
    /\ UNCHANGED <<input, parser, config, query, busy, req_path, options, file, other, markdown, stepped>>

\* print_md_with_options on the recipe of the text at its default scale, under
\* the name it was parsed with
PrintMd ==
    /\ me.pc = "parsed"
    /\ parse_with_recipe_ref_checker(Unwrap(me.self), input, None).ok
    /\ markdown' = print_md_with_options(
                       default_scale(parse_with_recipe_ref_checker(Unwrap(me.self), input, None).recipe),
                       me.res.recipe.name, options)
    /\ me' = [me EXCEPT !.pc = "printed"]
    /\ UNCHANGED <<input, parser, config, query, busy, req_path, options, file, other, stepped>>

InFlight(r) == r.pc \in {"lookup", "reading", "parsing", "times", "rendering", "stepped"}

\* GET /r/<path>?scale=&units= enters the handler `recipe`, which runs up to its
\* first await
Request ==
    /\ me.pc = "idle"
    /\ \E p \in Paths :
          /\ req_path' = p
          /\ me' = Requested(me, query, p)
    /\ UNCHANGED <<input, parser, config, query, busy, options, file, other, markdown, stepped>>

\* recipe_index.get(path) completes
IndexGet ==
    /\ me.pc = "lookup"
    /\ me' = LookedUp(me, req_path)
    /\ UNCHANGED <<input, parser, config, query, busy, req_path, options, file, other, markdown, stepped>>

\* read_to_string completes; the handler enters block_in_place with the text
ReadToString ==
    /\ me.pc = "reading"
    /\ me' = HaveRead(me, FileAt(req_path, file))
    /\ UNCHANGED <<input, parser, config, query, busy, req_path, options, file, other, markdown, stepped>>

\* the parse in block_in_place completes; the handler goes on to its next await
BlockInPlace ==
    /\ me.pc = "parsing"
    /\ \E result \in {Parsing(me, config, parser)} :
          \E tmpl, html, render \in BOOLEAN :
              me' = HaveParsed(me, query, config, result, tmpl, html, render)
    /\ UNCHANGED <<input, parser, config, query, busy, req_path, options, file, other, markdown, stepped>>

\* get_times completes; the handler builds the context and starts the render,
\* in which resolve_recipe calls block_in_place
GetTimes ==
    /\ me.pc = "times"
    /\ me' = Timed(me, query, config, FileAt(req_path, file))
    /\ UNCHANGED <<input, parser, config, query, busy, req_path, options, file, other, markdown, stepped>>

\* tmpl.render(ctx) completes: an error of a function of the template is an
\* error of the render
Render ==
    /\ me.pc \in {"rendering", "stepped"}
    /\ \E render \in BOOLEAN :
          /\ (me.pc = "stepped" /\ stepped.result.status # "Ok") => ~render
          /\ me' = Rendered(me, render)
    /\ stepped' = NoStep
    /\ UNCHANGED <<input, parser, config, query, busy, req_path, options, file, other, markdown>>

\* a second request for cake.cook arrives while the first is in progress, and
\* runs from await to await in between the steps of the first
OtherRequest ==
    /\ busy
    /\ InFlight(me)
    /\ other.pc = "idle"
    /\ other' = Requested(other, query, "cake")
    /\ UNCHANGED <<input, parser, config, query, busy, req_path, options, file, me, markdown, stepped>>

OtherIndexGet ==
    /\ other.pc = "lookup"
    /\ other' = LookedUp(other, "cake")
    /\ UNCHANGED <<input, parser, config, query, busy, req_path, options, file, me, markdown, stepped>>

OtherReadToString ==
    /\ other.pc = "reading"
    /\ other' = HaveRead(other, file)
    /\ UNCHANGED <<input, parser, config, query, busy, req_path, options, file, me, markdown, stepped>>

OtherBlockInPlace ==
    /\ other.pc = "parsing"
    /\ \E result \in {Parsing(other, config, parser)} :
          \E tmpl, html, render \in BOOLEAN :
              other' = HaveParsed(other, query, config, result, tmpl, html, render)
    /\ UNCHANGED <<input, parser, config, query, busy, req_path, options, file, me, markdown, stepped>>

OtherGetTimes ==
    /\ other.pc = "times"
    /\ other' = Timed(other, query, config, file)
    /\ UNCHANGED <<input, parser, config, query, busy, req_path, options, file, me, markdown, stepped>>

OtherRender ==
    /\ other.pc = "rendering"
    /\ \E render \in BOOLEAN :
          other' = Rendered(other, render)
    /\ UNCHANGED <<input, parser, config, query, busy, req_path, options, file, me, markdown, stepped>>

\* while the request that is followed is in progress, something else rewrites
\* cake.cook as an empty file, or removes it
WriteFile ==
    /\ busy
    /\ InFlight(me)
    /\ IsSome(file)
    /\ file # Some(<<>>)
    /\ file' = Some(<<>>)
    /\ UNCHANGED <<input, parser, config, query, busy, req_path, options, me, other, markdown, stepped>>

RemoveFile ==
    /\ busy
    /\ InFlight(me)
    /\ IsSome(file)
    /\ file' = None
    /\ UNCHANGED <<input, parser, config, query, busy, req_path, options, me, other, markdown, stepped>>

\* what a template passes: the items of a step, also with an index that no
\* ingredient has, or all of them twice, and the ingredients of the context; or
\* the items and another list of the context, its cookware
Dangling(c) == Item("ingredient", Len(c.ingredients), "")
StepArgs(c, items) ==
    {<<items, c.ingredients>>, <<Append(items, Dangling(c)), c.ingredients>>,
     <<items \o items, c.ingredients>>, <<items, c.cookware>>}

\* the steps of the served recipe
StepsOf(c) ==
    UNION {{<<s, t>> : t \in {k \in 1..Len(c.sections[s].content) :
                                c.sections[s].content[k].type = "step"}} :
           s \in 1..Len(c.sections)}

\* the template calling step_ingredients for one step during the render
StepIngredients ==
    /\ me.pc = "rendering"
    /\ \E c \in {Unwrap(me.resp.r)} :
          \E st \in StepsOf(c) :
              \E args \in StepArgs(c, c.sections[st[1]].content[st[2]].items) :
                  stepped' = [items |-> args[1],
                              ingredients |-> args[2],
                              result |-> step_ingredients(args[1], args[2])]
    /\ me' = [me EXCEPT !.pc = "stepped"]
    /\ UNCHANGED <<input, parser, config, query, busy, req_path, options, file, other, markdown>>

Next ==
    \/ WithConverter \/ WithExtensions \/ WarningsAsErrors
    \/ Parse \/ PrintMd
    \/ Request \/ IndexGet \/ ReadToString \/ BlockInPlace \/ GetTimes \/ Render
    \/ OtherRequest \/ OtherIndexGet \/ OtherReadToString \/ OtherBlockInPlace
    \/ OtherGetTimes \/ OtherRender
    \/ WriteFile \/ RemoveFile
    \/ StepIngredients

Spec == Init /\ [][Next]_vars
SpecRef == InitRef /\ [][Next]_vars
SpecIndex == InitIndex /\ [][Next]_vars
SpecExt == InitExt /\ [][Next]_vars
SpecScale == InitScale /\ [][Next]_vars
SpecConv == InitConv /\ [][Next]_vars
SpecGroup == InitGroup /\ [][Next]_vars
SpecMeta == InitMeta /\ [][Next]_vars
SpecStep == InitStep /\ [][Next]_vars
SpecPath == InitPath /\ [][Next]_vars

(***************************************************************************)
(* The caller the properties below are about: the one that is followed,    *)
(* for as long as the text it was given is `input` (a request that read    *)
(* the rewritten file was given another text).                             *)
(***************************************************************************)
pc == IF me.content \in {None, Some(input)} THEN me.pc ELSE "other text"
res == me.res
resp == me.resp
calls == me.calls
failed == me.failed
\* the parser as it was when the result in the hands of the caller was made
ParserUsed == IF IsSome(me.self) THEN Unwrap(me.self) ELSE parser

(***************************************************************************)
(* What the two phases record for the text of the current state.           *)
(***************************************************************************)
ParserPhase == parser_parse(input, ParserUsed.extensions, ParserUsed.warnings_as_errors)
AnalysisPhase(chk) == analyze_ast(ParserPhase.ast, ParserUsed.warnings_as_errors, chk)
\* the checker the operation of the current state ran with
CheckerUsed == IF pc = "responded" THEN checker(config, Some(EntryPath)) ELSE None
\* analysis runs only after a parser phase that did not fail
Recorded ==
    ParserPhase.w \o (IF ParserPhase.ok THEN AnalysisPhase(CheckerUsed).w ELSE <<>>)
Parsed == pc \in {"parsed", "printed"} \/ (pc = "responded" /\ resp.status = "OK")

(***************************************************************************)
(* C1: parse hands its caller a SourceReport instead of a Recipe if and    *)
(* only if an Error-severity diagnostic was recorded in some phase, or     *)
(* warnings_as_errors is set and any diagnostic was recorded; otherwise it *)
(* returns the Recipe with every recorded diagnostic as a warning.  The    *)
(* handler answers is_valid and the severity of its report accordingly.    *)
(***************************************************************************)
C1_FailureIffErrorRecorded ==
    Parsed =>
        /\ ~res.ok <=> (HasError(Recorded) \/ (ParserUsed.warnings_as_errors /\ Recorded # <<>>))
        /\ res.ok => res.warnings = Recorded
        /\ pc = "responded" =>
              /\ resp.is_valid = res.ok
              /\ resp.severity = (IF res.ok THEN "warning" ELSE "error")

\* a failure that only the analysis phase saw, with warnings not promoted
C1_Witness ==
    /\ pc = "parsed"
    /\ ~res.ok
    /\ ~ParserUsed.warnings_as_errors
    /\ ParserPhase.ok
    /\ HasError(AnalysisPhase(None).w)

(***************************************************************************)
(* C10: the result handed to the caller holds every diagnostic recorded by *)
(* the parser phase followed by every diagnostic recorded by the analysis  *)
(* phase, each phase in its own order, none missing, whether the result is *)
(* the Recipe with warnings or the SourceReport.                           *)
(***************************************************************************)
C10_AllDiagnosticsInOrder ==
    pc = "parsed" => (IF res.ok THEN res.warnings ELSE res.report) = Recorded

(***************************************************************************)
(* C2: in every Recipe produced by parse and every ScaledRecipe derived    *)
(* from it, each index of a step Item (ingredient, cookware, timer, inline *)
(* quantity) and each index of a relation is within the list of its kind   *)
(* that the same recipe owns, so the unchecked lookups of the consumers    *)
(* (w_step) never go out of range.                                         *)
(***************************************************************************)
\* the items of the steps of a recipe
Items(r) ==
    UNION {UNION {{r.sections[s].content[t].items[k] :
                      k \in 1..Len(r.sections[s].content[t].items)}
                  : t \in {c \in 1..Len(r.sections[s].content) :
                              r.sections[s].content[c].type = "step"}}
           : s \in 1..Len(r.sections)}

\* an item that is an index has, in the same recipe, the list of its kind, and
\* the index is one of that list
ItemInBounds(item, r) ==
    CASE item.type = "ingredient" -> item.index \in 0..(Len(r.ingredients) - 1)
      [] item.type = "cookware" -> item.index \in 0..(Len(r.cookware) - 1)
      [] item.type = "timer" -> item.index \in 0..(Len(r.timers) - 1)
      [] item.type = "inline_quantity" ->
            /\ "inline_quantities" \in DOMAIN r
            /\ item.index \in 0..(Len(r.inline_quantities) - 1)
      [] OTHER -> TRUE

RelationsInBounds(r) ==
    /\ \A i \in 1..Len(r.ingredients) :
          IsSome(r.ingredients[i].relation) =>
              Unwrap(r.ingredients[i].relation) \in 0..(Len(r.ingredients) - 1)
    /\ \A i \in 1..Len(r.cookware) :
          IsSome(r.cookware[i].relation) =>
              Unwrap(r.cookware[i].relation) \in 0..(Len(r.cookware) - 1)

AllInBounds(r) ==
    /\ \A item \in Items(r) : ItemInBounds(item, r)
    /\ RelationsInBounds(r)

\* the same for the lists of the template context, built from the ScaledRecipe
ContextInBounds(c) ==
    /\ \A item \in Items(c) : ItemInBounds(item, c)
    /\ \A i \in 1..Len(c.ingredients) :
          IsSome(c.ingredients[i].references_to) =>
              Unwrap(c.ingredients[i].references_to).index \in 0..(Len(c.ingredients) - 1)
    /\ \A i \in 1..Len(c.cookware) :
          IsSome(c.cookware[i].references_to) =>
              Unwrap(c.cookware[i].references_to) \in 0..(Len(c.cookware) - 1)

\* the recipe the writer was given
PrintedRecipe == default_scale(parse_with_recipe_ref_checker(ParserUsed, input, None).recipe)

C2_IndicesInBounds ==
    /\ (pc \in {"parsed", "printed"} /\ res.ok) => AllInBounds(res.recipe)
    /\ pc = "printed" => (AllInBounds(PrintedRecipe) /\ ~markdown.panic)
    /\ (pc = "responded" /\ resp.status = "OK" /\ res.ok) =>
          (AllInBounds(res.recipe) /\ ContextInBounds(Unwrap(resp.r)))

(***************************************************************************)
(* The mentions of a text, as the analysis numbers them (every construct   *)
(* of these texts is accepted by the parser).                              *)
(***************************************************************************)
Mentions(kind) == {i \in 1..Len(input) : input[i].kind = kind}
\* the 0-based index of the entry of mention i in its list
EntryIndex(i) == Cardinality({j \in Mentions(input[i].kind) : j < i})
Earlier(i) == {j \in Mentions(input[i].kind) : j < i /\ input[j].name = input[i].name}
RefMentions ==
    {i \in Mentions("ingredient") \cup Mentions("cookware") : "ref" \in input[i].mods}
ListOf(content, kind) == IF kind = "ingredient" THEN content.ingredients ELSE content.cookware
DiagsAt(diags, span) == {k \in 1..Len(diags) : diags[k].span = span}

(***************************************************************************)
(* C6: for a mention with the "references previous" modifier, if an        *)
(* earlier entry of exactly the same name exists the relation holds the    *)
(* index of the nearest such entry and no diagnostic is recorded for the   *)
(* mention; if none exists exactly one diagnostic is recorded, the mention *)
(* is a fresh definition without back-reference, and analysis goes on to   *)
(* the end of the text.  The template shows the relation as references_to. *)
(***************************************************************************)
C6_ReferencesPrevious ==
    Parsed =>
        LET a == AnalysisPhase(CheckerUsed)
        IN /\ \A kind \in {"ingredient", "cookware"} :
                 Len(ListOf(a.content, kind)) = Cardinality(Mentions(kind))
           /\ \A i \in RefMentions :
                 LET e == ListOf(a.content, input[i].kind)[EntryIndex(i) + 1]
                 IN IF Earlier(i) # {}
                    THEN /\ e.relation = Some(EntryIndex(Max(Earlier(i))))
                         /\ DiagsAt(a.w, i) = {}
                         /\ (pc = "responded" /\ IsSome(resp.r) /\ input[i].kind = "ingredient")
                               => Unwrap(resp.r).ingredients[EntryIndex(i) + 1].references_to
                                    = Some([index |-> EntryIndex(Max(Earlier(i))),
                                            target |-> "ingredient"])
                    ELSE /\ e.relation = None
                         /\ Cardinality(DiagsAt(a.w, i)) = 1

\* served: "flour", then "Flour", then a reference to "flour", which skips "Flour"
C6_Witness ==
    /\ pc = "responded"
    /\ IsSome(resp.r)
    /\ Len(input) = 3
    /\ input[1].name = "flour"
    /\ input[2].name = "Flour"
    /\ input[3].name = "flour"
    /\ 3 \in RefMentions
    /\ Unwrap(resp.r).ingredients[3].references_to = Some([index |-> 0, target |-> "ingredient"])

(***************************************************************************)
(* C7: with the server's checker injected, one analysis pass calls it      *)
(* exactly once for each distinct recipe name the text references, however *)
(* many mentions share the name, never again for a name it was called      *)
(* with, and each NotFound yields one diagnostic carrying the hints the    *)
(* checker returned (RECIPE_REF_ERROR); without recipe_ref_check nothing   *)
(* is called.                                                              *)
(***************************************************************************)
\* of the names a text can reference, those that are neither in the recipe index
\* nor a path below the base path
MissingNames == {"secret", "link", "notes", "raw", "lost"}
ReferencedNames == {input[i].name : i \in {j \in Mentions("ingredient") : "recipe" \in input[j].mods}}
NotFoundDiags(diags) == {k \in 1..Len(diags) : diags[k].message = "recipe not found"}
ResultDiags == IF res.ok THEN res.warnings ELSE res.report

C7_CheckerOncePerName ==
    (pc = "responded" /\ resp.status = "OK") =>
        IF config.recipe_ref_check
        THEN /\ \A n \in ReferencedNames :
                   Cardinality({k \in 1..Len(calls) : calls[k] = n}) = 1
             /\ \A k \in 1..Len(calls) : calls[k] \in ReferencedNames
             /\ LET missing == ReferencedNames \cap MissingNames
                    nf == NotFoundDiags(ResultDiags)
                IN /\ Cardinality(nf) = Cardinality(missing)
                   /\ \A k \in nf :
                         /\ ResultDiags[k].hints = <<RECIPE_REF_ERROR>>
                         /\ input[ResultDiags[k].span].name \in missing
        ELSE calls = <<>> /\ NotFoundDiags(ResultDiags) = {}

\* a served text that mentions the missing recipe twice
C7_Witness ==
    /\ pc = "responded"
    /\ config.recipe_ref_check
    /\ Cardinality({i \in 1..Len(input) : input[i].name = "secret"}) >= 2
    /\ calls = <<"secret">>
    /\ res.ok

(***************************************************************************)
(* C3: a construct of a disabled extension is recorded by exactly one      *)
(* diagnostic whose span is the construct (a Warning, an Error under       *)
(* warnings_as_errors), stays in the AST as literal text and as no         *)
(* structured node, and the rest of the text is parsed as usual; a section *)
(* marker without SECTIONS leaves the single implicit section.             *)
(***************************************************************************)
\* the flags a construct needs that the configuration lacks
Lacking(tok) ==
    {f \in Flags : BitAnd(tok.gate, f) = f /\ BitAnd(ParserUsed.extensions, f) = 0}
Disabled == {i \in 1..Len(input) : Lacking(input[i]) # {}}

AstNodes(ast) ==
    UNION {UNION {{ast.sections[s].steps[t][k] : k \in 1..Len(ast.sections[s].steps[t])}
                  : t \in 1..Len(ast.sections[s].steps)}
           : s \in 1..Len(ast.sections)}
NodesAt(ast, i) == {n \in AstNodes(ast) : n.span = i}

C3_DisabledExtensionIsText ==
    Parsed =>
        LET p == ParserPhase
        IN /\ Len(p.w) = Cardinality(Disabled)
           /\ \A i \in Disabled :
                 /\ \E k \in 1..Len(p.w) :
                       /\ p.w[k].span = i
                       /\ p.w[k].severity =
                             (IF ParserUsed.warnings_as_errors THEN "Error" ELSE "Warning")
                 /\ Cardinality(NodesAt(p.ast, i)) = 1
                 /\ \A n \in NodesAt(p.ast, i) : n.kind = "text"
           /\ \A i \in (1..Len(input)) \ Disabled :
                 /\ input[i].kind \in {"ingredient", "temperature"}
                       => \E n \in NodesAt(p.ast, i) : n.kind = NodeKind(input[i])
                 /\ input[i].kind = "section"
                       => \E s \in 1..Len(p.ast.sections) :
                              p.ast.sections[s].name = Some(input[i].name)
           /\ ~Contains(ParserUsed.extensions, SECTIONS)
                 => (Len(p.ast.sections) = 1 /\ p.ast.sections[1].name = None)

\* a section marker before an accepted ingredient, parsed without SECTIONS
C3_Witness ==
    /\ pc = "parsed"
    /\ ~Contains(ParserUsed.extensions, SECTIONS)
    /\ Len(input) = 2
    /\ input[1].kind = "section"
    /\ input[2].kind = "ingredient"
    /\ Disabled = {1}
    /\ res.ok
    /\ res.warnings = <<Diagnostic("Warning", "extension disabled", 1, <<>>)>>
    /\ Len(res.recipe.sections) = 1
    /\ Len(res.recipe.ingredients) = 1

(***************************************************************************)
(* The quantities of a text and of the answer to a request for it (every   *)
(* construct of these texts is accepted by the parser).                    *)
(***************************************************************************)
WithQuantity == {i \in 1..Len(input) : IsSome(input[i].qty)}
ParsedQuantity(i) == Unwrap(input[i].qty)
\* the quantity the answer shows for mention i
ShownQuantity(i) ==
    LET c == Unwrap(resp.r)
        k == EntryIndex(i) + 1
    IN CASE input[i].kind = "ingredient" -> Unwrap(c.ingredients[k].quantity)
         [] input[i].kind = "cookware" -> Unwrap(c.cookware[k].quantity)
         [] input[i].kind = "timer" -> Unwrap(c.timers[k].quantity)
         [] OTHER -> c.inline_quantities[k]

\* the servings the text declares: its last numeric servings line, else 1
ServingsLines ==
    {i \in 1..Len(input) : input[i].kind = "metadata" /\ input[i].name = "servings"
                            /\ IsSome(NumOf(input[i].val))}
DeclaredServings ==
    IF ServingsLines = {} THEN 1 ELSE Unwrap(NumOf(input[Max(ServingsLines)].val))

\* a * n = b * d, for rationals a and b: b is a times n / d
IsTimes(b, a, n, d) == b[1] * a[2] * d = a[1] * n * b[2]

Served == pc = "responded" /\ IsSome(resp.r)

(***************************************************************************)
(* C4: scale(target) multiplies every Number, and both bounds of every     *)
(* Range, by target / base servings and leaves every Text alone; without a *)
(* ?scale= the handler takes default_scale(), which returns every quantity *)
(* as parsed; servings 4, flour 200 g and water 1 l scaled to 8 give flour *)
(* 400 g and water 2 l.                                                    *)
(***************************************************************************)
C4_ScaleMultiplies ==
    Served =>
        /\ \A i \in WithQuantity :
              LET p == ParsedQuantity(i)
                  q == ShownQuantity(i)
              IN /\ q.unit = p.unit
                 /\ q.value.type = p.value.type
                 /\ IF p.value.type = "Text" \/ ~IsSome(query.scale) THEN q = p
                    ELSE /\ IsTimes(q.value.start, p.value.start,
                                    Unwrap(query.scale), DeclaredServings)
                         /\ IsTimes(q.value.end, p.value.end,
                                    Unwrap(query.scale), DeclaredServings)
        /\ (input = <<TokServings, TokFlour, TokWater>> /\ query.scale = Some(8)) =>
              /\ ShownQuantity(2) = Quantity(Number(<<400, 1>>), Some("g"))
              /\ ShownQuantity(3) = Quantity(Number(<<2, 1>>), Some("l"))

\* the end-to-end scenario, served at 8 servings
C4_Witness ==
    /\ Served
    /\ input = <<TokServings, TokFlour, TokWater>>
    /\ query.scale = Some(8)
    /\ ShownQuantity(2).value.start = <<400, 1>>

(***************************************************************************)
(* C8: a numeric quantity converted to a unit system comes out in the      *)
(* largest unit of that system and of its kind in which its magnitude is   *)
(* at least 1, in the smallest such unit when there is none, and in the    *)
(* earliest declared among units of equal size; a Range is judged by its   *)
(* start bound and has both bounds in the chosen unit.                     *)
(***************************************************************************)
RequestedSystem == IF IsSome(query.units) /\ Unwrap(query.units) \in Systems
                   THEN query.units ELSE None
Rows(unit) == {k \in 1..Len(Units) : Units[k].name = unit}
SameKindIn(system, k) ==
    {c \in 1..Len(Units) : Units[c].system = system /\ Units[c].kind = Units[k].kind}
\* mention i has a numeric quantity in a table unit whose kind the system has units of
Convertible(i, system) ==
    /\ ParsedQuantity(i).value.type # "Text"
    /\ IsSome(ParsedQuantity(i).unit)
    /\ \E k \in Rows(Unwrap(ParsedQuantity(i).unit)) : SameKindIn(system, k) # {}

C8_NicestUnit ==
    (Served /\ IsSome(RequestedSystem)) =>
        \A i \in {j \in WithQuantity : Convertible(j, Unwrap(RequestedSystem))} :
            LET p == ParsedQuantity(i)
                q == ShownQuantity(i)
                k == Min(Rows(Unwrap(p.unit)))
                cands == SameKindIn(Unwrap(RequestedSystem), k)
                \* the start bound, in the unit of row x, is at least 1
                fits(x) == p.value.start[1] * Units[k].factor
                              >= Units[x].factor * p.value.start[2]
            IN /\ IsSome(q.unit)
               /\ q.value.type = p.value.type
               /\ \E c \in cands :
                     /\ q.unit = Some(Units[c].name)
                     /\ IsTimes(q.value.start, p.value.start, Units[k].factor, Units[c].factor)
                     /\ IsTimes(q.value.end, p.value.end, Units[k].factor, Units[c].factor)
                     /\ IF \E x \in cands : fits(x)
                        THEN /\ fits(c)
                             /\ \A x \in cands : fits(x) => Units[x].factor <= Units[c].factor
                        ELSE \A x \in cands : Units[c].factor <= Units[x].factor
                     /\ \A x \in cands : Units[x].factor = Units[c].factor => c <= x

\* 1/2 cc, which fits no metric unit and ties between ml and cc, and a range of
\* 1/2 to 2 kg, whose start is below 1 kg
C8_Witness ==
    /\ Served
    /\ query.units = Some("metric")
    /\ input = <<TokMilkCc, TokMilkRange>>
    /\ ShownQuantity(1) = Quantity(Number(<<1, 2>>), Some("ml"))
    /\ ShownQuantity(2) = Quantity(Range(<<500, 1>>, <<2000, 1>>), Some("g"))

(***************************************************************************)
(* C9: a conversion that fails with UnknownUnit or IncompatibleKind, and   *)
(* any conversion of a Text value, leaves value and unit as they were and  *)
(* does not fail the recipe: a request in which no call of the handler     *)
(* failed is answered OK whatever convert reported, the page shows the     *)
(* quantity as parsed, and the seconds of the timers are computed on       *)
(* copies.                                                                 *)
(***************************************************************************)
Unconvertible(i, system) ==
    \/ ParsedQuantity(i).value.type = "Text"
    \/ /\ IsSome(ParsedQuantity(i).unit)
       /\ \/ Rows(Unwrap(ParsedQuantity(i).unit)) = {}
          \/ \A k \in Rows(Unwrap(ParsedQuantity(i).unit)) : SameKindIn(system, k) = {}

\* the timers whose quantity is a number of a time unit
TimedMentions ==
    {i \in Mentions("timer") :
        /\ IsSome(input[i].qty)
        /\ ParsedQuantity(i).value.type # "Text"
        /\ IsSome(ParsedQuantity(i).unit)
        /\ \E k \in Rows(Unwrap(ParsedQuantity(i).unit)) : Units[k].kind = "time"}

C9_FailedConversionKeepsQuantity ==
    (pc = "responded" /\ IsSome(RequestedSystem)) =>
        /\ resp.status = "OK" <=> failed = None
        /\ (resp.status = "OK" /\ res.ok) => (resp.is_valid /\ IsSome(resp.r))
        /\ (resp.status = "OK" /\ res.ok) =>
              /\ \A i \in {j \in WithQuantity : Unconvertible(j, Unwrap(RequestedSystem))} :
                    ShownQuantity(i) = ParsedQuantity(i)
              /\ Len(Unwrap(resp.r).timers_seconds) = Cardinality(TimedMentions)

\* an unknown unit, a text and a timer next to nothing else, asked in imperial units
C9_Witness ==
    /\ Served
    /\ query.units = Some("imperial")
    /\ input = <<TokPinch, TokButterText, TokTimer>>
    /\ convert(default_scale(res.recipe), "imperial").errors
          = {Some("UnknownUnit"), Some("cannot convert non-numeric quantity"),
             Some("IncompatibleKind")}
    /\ Unwrap(resp.r).timers_seconds = <<<<600, 1>>>>

(***************************************************************************)
(* C5: every name with a listed ingredient mention has one group, at the   *)
(* index of its first listed mention.  The group is Fixed, with no         *)
(* quantity, exactly when no listed mention of the name has one; Scaled    *)
(* with one quantity worth the sum of all of them when they are numbers in *)
(* table units of one kind (200 g and 0.3 kg of flour are 500 g) or bare   *)
(* counts, and with the quantity itself when there is only one, whatever   *)
(* its kind; Error with every quantity as it was, in order, when two of    *)
(* them are of different kinds (mass, volume, count, text, unknown unit).  *)
(* Whatever the kinds, a Scaled group has exactly one quantity and an      *)
(* Error group every original quantity, none summed or dropped.            *)
(***************************************************************************)
Listed == {i \in Mentions("ingredient") : "hidden" \notin input[i].mods}
ListedNames == {input[i].name : i \in Listed}
ListedOf(name) == {i \in Listed : input[i].name = name}
Quantified(name) == {i \in ListedOf(name) : IsSome(input[i].qty)}
\* the kind of the quantity the grouping is given for mention i
KindOf(i) ==
    LET q == ShownQuantity(i)
    IN IF q.value.type = "Text" THEN "text"
       ELSE IF ~IsSome(q.unit) THEN "count"
       ELSE IF Rows(Unwrap(q.unit)) = {} THEN "unknown"
       ELSE Units[Min(Rows(Unwrap(q.unit)))].kind
TableKinds == {Units[k].kind : k \in 1..Len(Units)}
BaseFactor(q) == Units[Min(Rows(Unwrap(q.unit)))].factor
\* the sum, in base units, of the start or end bounds of the mentions in S
RECURSIVE BaseSum(_, _)
BaseSum(S, bound) ==
    IF S = {} THEN <<0, 1>>
    ELSE LET i == CHOOSE j \in S : TRUE
             q == ShownQuantity(i)
             v == IF bound = "start" THEN q.value.start ELSE q.value.end
         IN RAdd(RMul(v, <<BaseFactor(q), 1>>), BaseSum(S \ {i}, bound))
\* the sum of the start or end bounds of the bare counts of the mentions in S
RECURSIVE CountSum(_, _)
CountSum(S, bound) ==
    IF S = {} THEN <<0, 1>>
    ELSE LET i == CHOOSE j \in S : TRUE
             q == ShownQuantity(i)
         IN RAdd(IF bound = "start" THEN q.value.start ELSE q.value.end,
                 CountSum(S \ {i}, bound))
\* the quantities of the mentions in S from position i on, in order
RECURSIVE InOrder(_, _)
InOrder(S, i) ==
    IF i > Len(input) THEN <<>>
    ELSE (IF i \in S THEN <<ShownQuantity(i)>> ELSE <<>>) \o InOrder(S, i + 1)
GroupsAt(index) ==
    {g \in 1..Len(Unwrap(resp.r).grouped_ingredients) :
        Unwrap(resp.r).grouped_ingredients[g].index = index}

C5_GroupOutcome ==
    Served =>
        /\ Len(Unwrap(resp.r).grouped_ingredients) = Cardinality(ListedNames)
        /\ \A name \in ListedNames :
              LET first == Min(ListedOf(name))
                  qs == Quantified(name)
                  kinds == {KindOf(i) : i \in qs}
              IN /\ Cardinality(GroupsAt(EntryIndex(first))) = 1
                 /\ LET g == Unwrap(resp.r).grouped_ingredients
                                 [CHOOSE k \in GroupsAt(EntryIndex(first)) : TRUE]
                    IN /\ g.outcome \in {"Fixed", "Scaled", "Error"}
                       /\ g.outcome = "Fixed" <=> qs = {}
                       /\ g.outcome = "Fixed" => g.quantities = <<>>
                       /\ g.outcome = "Scaled" => Len(g.quantities) = 1
                       /\ g.outcome = "Error" => g.quantities = InOrder(qs, 1)
                       /\ Cardinality(qs) = 1 =>
                             (g.outcome = "Scaled" /\ g.quantities = InOrder(qs, 1))
                       /\ kinds = {"count"} =>
                             /\ g.outcome = "Scaled"
                             /\ Len(g.quantities) = 1
                             /\ ~IsSome(g.quantities[1].unit)
                             /\ g.quantities[1].value.start = CountSum(qs, "start")
                             /\ g.quantities[1].value.end = CountSum(qs, "end")
                       /\ (Cardinality(kinds) = 1 /\ kinds \subseteq TableKinds) =>
                             /\ g.outcome = "Scaled"
                             /\ Len(g.quantities) = 1
                             /\ IsSome(g.quantities[1].unit)
                             /\ Rows(Unwrap(g.quantities[1].unit)) # {}
                             /\ Units[Min(Rows(Unwrap(g.quantities[1].unit)))].kind \in kinds
                             /\ RMul(g.quantities[1].value.start,
                                     <<BaseFactor(g.quantities[1]), 1>>)
                                    = BaseSum(qs, "start")
                             /\ RMul(g.quantities[1].value.end,
                                     <<BaseFactor(g.quantities[1]), 1>>)
                                    = BaseSum(qs, "end")
                       /\ (\E a, b \in kinds : a # b) =>
                             /\ g.outcome = "Error"
                             /\ g.quantities = InOrder(qs, 1)
        /\ (input = <<TokFlour, TokFlourKg>> /\ ~IsSome(query.units)) =>
              Unwrap(resp.r).grouped_ingredients[1].quantities
                  = <<Quantity(Number(<<500, 1>>), Some("g"))>>

\* flour as 200 g and as 0.3 kg, and salt without a quantity
C5_Witness ==
    /\ Served
    /\ input = <<TokFlour, TokSaltBare, TokFlourKg>>
    /\ LET g == Unwrap(resp.r).grouped_ingredients
       IN /\ Len(g) = 2
          /\ g[1].outcome = "Scaled" /\ Len(g[1].quantities) = 1
          /\ g[2].outcome = "Fixed" /\ g[2].index = 1

(***************************************************************************)
(* C11: in the front matter the raw metadata keys come in the order in     *)
(* which the metadata holds them; the value under author, source, time,    *)
(* servings and tags is the typed value when the typed field is populated, *)
(* and the raw text under every other key.                                 *)
(***************************************************************************)
Printed == pc = "printed"
RawMap == res.recipe.metadata.map
Keys(map) == [i \in 1..Len(map) |-> map[i].key]
\* the typed value of a key, None when the key is not special or its field is empty
TypedValue(metadata, key) ==
    CASE key = "author" /\ IsSome(metadata.author) -> Some(YamlMap(Unwrap(metadata.author)))
      [] key = "source" /\ IsSome(metadata.source) -> Some(YamlMap(Unwrap(metadata.source)))
      [] key = "time" /\ IsSome(metadata.time) -> Some(YamlNum(Unwrap(metadata.time)))
      [] key = "servings" /\ IsSome(metadata.servings) ->
            Some(YamlNum(Unwrap(metadata.servings)))
      [] key = "tags" /\ metadata.tags # <<>> -> Some(YamlSeq(metadata.tags))
      [] OTHER -> None
\* the entries of the front matter whose key is a raw metadata key
RawPart(front) ==
    LET raw(e) == MapHas(RawMap, e.key) IN SelectSeq(front, raw)
RawValuesWritten ==
    \A i \in 1..Len(RawMap) :
        /\ MapHas(markdown.front, RawMap[i].key)
        /\ MapGet(markdown.front, RawMap[i].key)
              = IF IsSome(TypedValue(res.recipe.metadata, RawMap[i].key))
                THEN Unwrap(TypedValue(res.recipe.metadata, RawMap[i].key))
                ELSE YamlStr(RawMap[i].val)

C11_FrontMatterInInsertionOrder ==
    (Printed /\ RawMap # <<>>) =>
        /\ Keys(RawPart(markdown.front)) = Keys(RawMap)
        /\ RawValuesWritten

(***************************************************************************)
(* C12: with front_matter_name the front matter has the key `name`, whose  *)
(* value is the metadata's own `name` when it has one and the name of the  *)
(* recipe otherwise; without the option the front matter has a `name` only *)
(* when the metadata has one, and it is the metadata's.                    *)
(***************************************************************************)
NameWritten ==
    /\ MapHas(markdown.front, "name")
    /\ MapGet(markdown.front, "name")
          = IF MapHas(RawMap, "name") THEN YamlStr(MapGet(RawMap, "name"))
            ELSE YamlStr(res.recipe.name)

C12_NameInFrontMatter ==
    Printed =>
        /\ options.front_matter_name => NameWritten
        /\ ~options.front_matter_name =>
              (MapHas(markdown.front, "name") => (MapHas(RawMap, "name") /\ NameWritten))

(***************************************************************************)
(* C13: step_ingredients returns an error exactly when an ingredient item  *)
(* has an index at which the list passed has no value (UndefinedError) or  *)
(* a value that is not a TemplateIngredient (InvalidOperation), the error  *)
(* being that of the first such item, and never panics in its second pass. *)
(* Otherwise it maps the index of every ingredient item, and nothing else: *)
(* among the items of the same ingredient name those with a quantity stay  *)
(* in the group, or the first item when none has one; in_ingredients_line  *)
(* says that the index stayed, and the subscript is its 1-based position   *)
(* in the group when it stayed and the group has more than one member.     *)
(***************************************************************************)
Stepped == pc = "stepped"
PassedIngredients == stepped.ingredients
\* the positions of the ingredient items among the items passed
IngredientItems == {k \in 1..Len(stepped.items) : stepped.items[k].type = "ingredient"}
Defined(k) == stepped.items[k].index < Len(PassedIngredients)
IngredientAt(k) == PassedIngredients[stepped.items[k].index + 1]
IsIngredient(k) == Defined(k) /\ IngredientAt(k).object = "TemplateIngredient"
FirstFailing == Min({k \in IngredientItems : ~IsIngredient(k)})
SameGroup(k) == {j \in IngredientItems : IngredientAt(j).name = IngredientAt(k).name}
\* the positions that stay in the group of item k: never empty
Kept(k) ==
    IF \E j \in SameGroup(k) : IsSome(IngredientAt(j).quantity)
    THEN {j \in SameGroup(k) : IsSome(IngredientAt(j).quantity)}
    ELSE {Min(SameGroup(k))}
Stays(k) == \E j \in Kept(k) : stepped.items[j].index = stepped.items[k].index
PlaceInGroup(k) ==
    LET first == Min({j \in Kept(k) : stepped.items[j].index = stepped.items[k].index})
    IN Cardinality({j \in Kept(k) : j <= first})

C13_StepIngredients ==
    Stepped =>
        /\ stepped.result.status # "panic"
        /\ stepped.result.status = "Ok" <=> \A k \in IngredientItems : IsIngredient(k)
        /\ stepped.result.status # "Ok" =>
              stepped.result = StepErr(IF Defined(FirstFailing) THEN "InvalidOperation"
                                       ELSE "UndefinedError")
        /\ stepped.result.status = "Ok" =>
              /\ {stepped.result.map[e].key : e \in 1..Len(stepped.result.map)}
                    = {stepped.items[k].index : k \in IngredientItems}
              /\ Len(stepped.result.map) = Cardinality({stepped.items[k].index : k \in IngredientItems})
              /\ \A k \in IngredientItems :
                    /\ Kept(k) # {}
                    /\ MapGet(stepped.result.map, stepped.items[k].index)
                          = [in_ingredients_line |-> Stays(k),
                             subscript |-> IF Stays(k) /\ Cardinality(Kept(k)) > 1
                                           THEN Some(PlaceInGroup(k)) ELSE None]

\* flour with, without and again with a quantity in one step
C13_Witness ==
    /\ Stepped
    /\ input = <<TokFlour, TokFlourBare, TokFlourKg>>
    /\ Len(stepped.items) = 3
    /\ stepped.result
          = StepOk(<<[key |-> 0, val |-> [in_ingredients_line |-> TRUE, subscript |-> Some(1)]],
                     [key |-> 1, val |-> [in_ingredients_line |-> FALSE, subscript |-> None]],
                     [key |-> 2, val |-> [in_ingredients_line |-> TRUE, subscript |-> Some(2)]]>>)

(***************************************************************************)
(* C14: the checker the server injects answers Found for a referenced name *)
(* only when the name's canonical path lies below the base path or the     *)
(* recipe index has the name; a name whose path resolves outside the base  *)
(* path is Found only through the index, and every other name gets one     *)
(* NotFound diagnostic with the hint RECIPE_REF_ERROR.  Without            *)
(* recipe_ref_check no checker is injected and nothing is looked up.       *)
(***************************************************************************)
\* where the path of a name leads, from the recipe that is served
Resolved(name) ==
    Canonical(IF PathOf(name).relative THEN EntryPath \o PathOf(name).parts
              ELSE PathOf(name).parts)
BelowBase(name) ==
    /\ IsSome(Resolved(name))
    /\ Len(Unwrap(Resolved(name))) >= Len(BasePath)
    /\ \A k \in 1..Len(BasePath) : Unwrap(Resolved(name))[k] = BasePath[k]
\* the referenced names the served result reports as not found
ReportedMissing == {input[ResultDiags[k].span].name : k \in NotFoundDiags(ResultDiags)}

C14_NoFoundOutsideBase ==
    (pc = "responded" /\ resp.status = "OK") =>
        IF config.recipe_ref_check
        THEN /\ \A n \in ReferencedNames :
                   /\ n \notin ReportedMissing => (BelowBase(n) \/ n \in RecipeIndex)
                   /\ ~BelowBase(n) => (n \notin ReportedMissing <=> n \in RecipeIndex)
                   /\ IsSome(as_path(n, Some(EntryPath), BasePath)) => BelowBase(n)
             /\ \A k \in NotFoundDiags(ResultDiags) :
                   ResultDiags[k].hints = <<RECIPE_REF_ERROR>>
        ELSE /\ checker(config, Some(EntryPath)) = None
             /\ calls = <<>>
             /\ ReportedMissing = {}

\* a symlink below the base path that leads outside, a path outside that the
\* index knows, and a path below the base path that the index does not know
C14_Witness ==
    /\ pc = "responded"
    /\ config.recipe_ref_check
    /\ input = <<TokLink, TokPie, TokDough>>
    /\ calls = <<"link", "pie", "dough">>
    /\ ReportedMissing = {"link"}

====
